---- MODULE Spec2Model ----
(***************************************************************************)
(* A model of the llm-mafia game engine: the GameState entity model        *)
(* (game/state.py), the action validators (game/actions.py), the phase     *)
(* engine (game/phases.py, game/voting.py), and the two drivers that run   *)
(* a game: the CLI phase runner (cli.py) and the API orchestrator loop     *)
(* (game/orchestrator.py, api/routes/games.py).                            *)
(*                                                                         *)
(* The GameState object is one record, `game`; every Python method or      *)
(* function that mutates it is an operator from a GameState record (and    *)
(* its inputs) to the GameState record it leaves behind.  Optional object  *)
(* references (trial_state, voting_state, a pending action) are sequences  *)
(* of length 0 (None) or 1; optional ids and teams use the string "None".  *)
(***************************************************************************)
EXTENDS Integers, Sequences, FiniteSets, TLC

VARIABLES
    driver,           \* "cli" (MafiaCLI) or "api" (GameOrchestrator) drives this game
    game,             \* the GameState object
    pending_actions,  \* GameOrchestrator.pending_actions[game_id]: player_id -> Option(Action)
    loop_tasks,       \* run_game_loop background tasks added by start_game
    night_calls,      \* handle_night_phase calls suspended at `await get_action`
    last_op           \* the handler that took the last step, and whether it reported success

vars == <<driver, game, pending_actions, loop_tasks, night_calls, last_op>>

-----------------------------------------------------------------------------
(* Bounds of the model *)

\* The CLI's phases stop being run once the event log holds this many events.
MaxEvents == 22
\* The orchestrator's loop stops being driven once the event log holds this many.
MaxLoopEvents == 12
\* Only the first MaxSilent players alive may fail to answer with the action
\* they are asked for.
MaxSilent == 1
\* Nominations are drawn from the first MaxNomTargets players alive.
MaxNomTargets == 2
\* The orchestrator's discussion is driven while current_speaker_idx is below this.
MaxSpeakerIdx == 3
\* start_game requests accepted before the loop first runs.
MaxLoopTasks == 2
\* Requests to submit_action name one of the first MaxSubmitters players.
MaxSubmitters == 1
\* Human players join_game is driven up to.
MaxHumans == 1
\* Players of the games check_win_conditions is applied to on its own.
MaxWinPlayers == 4

-----------------------------------------------------------------------------
(* Values *)

None == "None"
NoObject == << >>
Some(x) == <<x>>
EmptyMap == [k \in {} |-> None]

\* dict[key] = value
MapPut(m, k, v) == [x \in (DOMAIN m) \cup {k} |-> IF x = k THEN v ELSE m[x]]

Range(s) == {s[i] : i \in DOMAIN s}

\* F applied to the value of x: x is evaluated once, as a Python statement
\* evaluates the object it then works on.
Apply(x, F(_)) == CHOOSE y \in {F(v) : v \in {x}} : TRUE

\* game/state.py: Role, Team, Phase
MAFIA == "MAFIA"
VILLAGER == "VILLAGER"
DETECTIVE == "DETECTIVE"
DOCTOR == "DOCTOR"
MAFIA_TEAM == "MAFIA_TEAM"
TOWN_TEAM == "TOWN_TEAM"
NIGHT == "NIGHT"
DAY_DISCUSSION == "DAY_DISCUSSION"
DAY_NOMINATION == "DAY_NOMINATION"
DAY_DEFENSE == "DAY_DEFENSE"
DAY_JUDGMENT == "DAY_JUDGMENT"
GAME_END == "GAME_END"
\* "Legacy alias": the enum member DAY_VOTING has the value of DAY_JUDGMENT
DAY_VOTING == "DAY_JUDGMENT"
Phases == {NIGHT, DAY_DISCUSSION, DAY_NOMINATION, DAY_DEFENSE, DAY_JUDGMENT, GAME_END}

\* Player ids in insertion (seating) order; "px" is the id of no player.
Seats == <<"p0", "p1", "p2", "p3", "p4">>
UnknownId == "px"
AnyIds == Range(Seats) \cup {UnknownId}

\* cli.py create_game / api/routes/games.py get_team_for_role
get_team_for_role(role) == IF role = MAFIA THEN MAFIA_TEAM ELSE TOWN_TEAM

NewPlayer(role, human) ==
    [role |-> role, team |-> get_team_for_role(role), is_alive |-> TRUE, is_human |-> human]

-----------------------------------------------------------------------------
(* game/events.py *)

GameEvent(type, phase, day, player_id, target_id, data) ==
    [type |-> type, phase |-> phase, day |-> day,
     player_id |-> player_id, target_id |-> target_id, data |-> data]

NoData == [none |-> TRUE]

\* An add_event that puts the new event at the head of the list
add_event_at_head(g, type, player_id, target_id, data) ==
    [g EXCEPT !.event_log =
        <<GameEvent(type, g.current_phase, g.day, player_id, target_id, data)>> \o @]

add_event(g, type, player_id, target_id, data) ==
    [g EXCEPT !.event_log =
        Append(@, GameEvent(type, g.current_phase, g.day, player_id, target_id, data))]

get_events_by_type(g, type) == SelectSeq(g.event_log, LAMBDA e : e.type = type)
get_events_by_day(g, day) == SelectSeq(g.event_log, LAMBDA e : e.day = day)

-----------------------------------------------------------------------------
(* game/state.py: GameState *)

NewGameState ==
    [players |-> EmptyMap,
     current_phase |-> DAY_DISCUSSION,
     day |-> 1,
     current_speaker_idx |-> 0,
     nominations |-> << >>,      \* ordered dict: sequence of [target, nominators]
     who_nominated |-> EmptyMap,
     trial_state |-> NoObject,
     voting_state |-> NoObject,
     event_log |-> << >>,
     winner |-> None,
     is_started |-> FALSE,
     is_complete |-> FALSE]

\* self.players.values(), in insertion order
PlayerSeq(g) == SelectSeq(Seats, LAMBDA p : p \in DOMAIN g.players)

add_player(g, pid, player) == [g EXCEPT !.players = MapPut(@, pid, player)]

get_alive_players(g) == SelectSeq(PlayerSeq(g), LAMBDA p : g.players[p].is_alive)
get_alive_player_ids(g) == get_alive_players(g)

get_players_by_role(g, role) ==
    SelectSeq(PlayerSeq(g), LAMBDA p : g.players[p].role = role /\ g.players[p].is_alive)

get_players_by_team(g, team) ==
    SelectSeq(PlayerSeq(g), LAMBDA p : g.players[p].team = team /\ g.players[p].is_alive)

get_current_speaker(g) ==
    LET alive_players == get_alive_players(g)
    IN  IF alive_players = << >> THEN None
        ELSE alive_players[(g.current_speaker_idx % Len(alive_players)) + 1]

\* An advance_speaker that skips a player
advance_speaker_skipping(g) == [g EXCEPT !.current_speaker_idx = @ + 2]

advance_speaker(g) == [g EXCEPT !.current_speaker_idx = @ + 1]
reset_speaker_order(g) == [g EXCEPT !.current_speaker_idx = 0]

\* The ordered dict nominations: lookup, membership, update
NomTargets(noms) == {noms[i].target : i \in DOMAIN noms}
NomIndex(noms, t) == CHOOSE i \in DOMAIN noms : noms[i].target = t
NomList(noms, t) == noms[NomIndex(noms, t)].nominators

\* An add_nomination that appends the nominator without looking
add_nomination_append(g, nominator_id, target_id) ==
    LET n1 == IF target_id \in NomTargets(g.nominations) THEN g.nominations
              ELSE Append(g.nominations, [target |-> target_id, nominators |-> << >>])
        i  == NomIndex(n1, target_id)
    IN  [g EXCEPT !.nominations = [n1 EXCEPT ![i].nominators = Append(@, nominator_id)]]

add_nomination(g, nominator_id, target_id) ==
    LET n1 == IF target_id \in NomTargets(g.nominations) THEN g.nominations
              ELSE Append(g.nominations, [target |-> target_id, nominators |-> << >>])
        i  == NomIndex(n1, target_id)
    IN  IF nominator_id \in Range(n1[i].nominators)
        THEN [g EXCEPT !.nominations = n1]
        ELSE [g EXCEPT !.nominations =
                [n1 EXCEPT ![i].nominators = Append(@, nominator_id)]]

get_successful_nominations(g) ==
    LET ok == SelectSeq(g.nominations,
                 LAMBDA n : Len(n.nominators) >= 1
                            /\ n.target \in Range(get_alive_player_ids(g)))
    IN  [i \in DOMAIN ok |-> ok[i].target]

check_win_conditions_strict(g) ==
    LET mafia_count == Len(get_players_by_role(g, MAFIA))
        town_count == Len(SelectSeq(get_alive_players(g),
                                    LAMBDA p : g.players[p].team = TOWN_TEAM))
    IN  IF mafia_count = 0 THEN TOWN_TEAM
        ELSE IF mafia_count > town_count THEN MAFIA_TEAM
        ELSE None

check_win_conditions(g) ==
    LET mafia_count == Len(get_players_by_role(g, MAFIA))
        town_count == Len(SelectSeq(get_alive_players(g),
                                    LAMBDA p : g.players[p].team = TOWN_TEAM))
    IN  IF mafia_count = 0 THEN TOWN_TEAM
        ELSE IF mafia_count >= town_count THEN MAFIA_TEAM
        ELSE None

\* TrialState
TrialState(defendant_id) ==
    [defendant_id |-> defendant_id, defense_phase |-> "opening", votes |-> EmptyMap]

CountVotes(votes, v) == Cardinality({k \in DOMAIN votes : votes[k] = v})

trial_get_result(ts) ==
    IF DOMAIN ts.votes = {} THEN None
    ELSE IF CountVotes(ts.votes, TRUE) > CountVotes(ts.votes, FALSE) THEN "GUILTY"
    ELSE IF CountVotes(ts.votes, FALSE) > CountVotes(ts.votes, TRUE) THEN "INNOCENT"
    ELSE None

\* VotingState
VotingState(nominee1_id, nominee2_id) ==
    [nominee1_id |-> nominee1_id, nominee2_id |-> nominee2_id, votes |-> EmptyMap]

voting_is_complete(vs, alive_count) == Cardinality(DOMAIN vs.votes) >= alive_count

voting_get_result(vs) ==
    LET votes1 == CountVotes(vs.votes, vs.nominee1_id)
        votes2 == CountVotes(vs.votes, vs.nominee2_id)
    IN  IF DOMAIN vs.votes = {} THEN None
        ELSE IF votes1 > votes2 THEN vs.nominee1_id
        ELSE IF votes2 > votes1 THEN vs.nominee2_id
        ELSE None

-----------------------------------------------------------------------------
(* game/actions.py *)

SPEAK == "SPEAK"
NOMINATE == "NOMINATE"
VOTE == "VOTE"
JUDGMENT_VOTE == "JUDGMENT_VOTE"
PASS == "PASS"
NIGHT_ACTION == "NIGHT_ACTION"
KILL == "KILL"
SAVE == "SAVE"
INVESTIGATE == "INVESTIGATE"
NightActionTypes == {KILL, SAVE, INVESTIGATE}

SpeakAction(p, m) == [action_type |-> SPEAK, player_id |-> p, message |-> m]
NominateAction(p, t) == [action_type |-> NOMINATE, player_id |-> p, target_id |-> t]
VoteAction(p, n) == [action_type |-> VOTE, player_id |-> p, nominee_id |-> n]
PassAction(p) == [action_type |-> PASS, player_id |-> p]
JudgmentVoteAction(p, v) == [action_type |-> JUDGMENT_VOTE, player_id |-> p, vote |-> v]
NightAction(p, k, t) ==
    [action_type |-> NIGHT_ACTION, player_id |-> p, night_action_type |-> k, target_id |-> t]

\* Message texts: one with content, the empty one, one of blanks only.
Messages == {"I'm thinking...", "", " "}
\* str.strip()
strip(m) == IF m = " " THEN "" ELSE m

\* Verdict texts and str.upper()
Verdicts == {"GUILTY", "guilty", "INNOCENT", "abstain"}
upper(v) == CASE v = "guilty" -> "GUILTY"
              [] v = "abstain" -> "ABSTAIN"
              [] OTHER -> v

ActionsOf(p) ==
    {SpeakAction(p, m) : m \in Messages}
    \cup {NominateAction(p, t) : t \in AnyIds}
    \cup {VoteAction(p, n) : n \in AnyIds}
    \cup {PassAction(p)}
    \cup {JudgmentVoteAction(p, v) : v \in Verdicts}
    \cup {NightAction(p, k, t) : k \in NightActionTypes, t \in AnyIds}

AllActions == UNION {ActionsOf(p) : p \in AnyIds}

Valid == [ok |-> TRUE, error |-> None]
Invalid(reason) == [ok |-> FALSE, error |-> reason]

IsPlayer(g, p) == p \in DOMAIN g.players

SpeakAction_validate_any_turn(a, g) ==
    IF g.current_phase \notin {DAY_DISCUSSION, DAY_DEFENSE}
        THEN Invalid("Can only speak during discussion or defense phase")
    ELSE IF ~IsPlayer(g, a.player_id) THEN Invalid("Player not found")
    ELSE IF ~g.players[a.player_id].is_alive THEN Invalid("Dead players cannot speak")
    ELSE IF strip(a.message) = "" THEN Invalid("Message cannot be empty")
    ELSE Valid

SpeakAction_validate(a, g) ==
    IF g.current_phase \notin {DAY_DISCUSSION, DAY_DEFENSE}
        THEN Invalid("Can only speak during discussion or defense phase")
    ELSE IF ~IsPlayer(g, a.player_id) THEN Invalid("Player not found")
    ELSE IF ~g.players[a.player_id].is_alive THEN Invalid("Dead players cannot speak")
    ELSE IF g.current_phase = DAY_DISCUSSION /\ get_current_speaker(g) # a.player_id
        THEN Invalid("Not your turn to speak")
    ELSE IF strip(a.message) = "" THEN Invalid("Message cannot be empty")
    ELSE Valid

\* A NominateAction.validate without the check of the phase
NominateAction_validate_any_phase(a, g) ==
    IF ~IsPlayer(g, a.player_id) THEN Invalid("Player not found")
    ELSE IF ~g.players[a.player_id].is_alive THEN Invalid("Dead players cannot nominate")
    ELSE IF g.current_phase = DAY_DISCUSSION /\ get_current_speaker(g) # a.player_id
        THEN Invalid("Not your turn to nominate")
    ELSE IF ~IsPlayer(g, a.target_id) THEN Invalid("Target player not found")
    ELSE IF ~g.players[a.target_id].is_alive THEN Invalid("Cannot nominate dead players")
    ELSE IF a.player_id = a.target_id THEN Invalid("Cannot nominate yourself")
    ELSE Valid

NominateAction_validate(a, g) ==
    IF g.current_phase \notin {DAY_DISCUSSION, DAY_NOMINATION}
        THEN Invalid("Can only nominate during discussion or nomination phase")
    ELSE IF ~IsPlayer(g, a.player_id) THEN Invalid("Player not found")
    ELSE IF ~g.players[a.player_id].is_alive THEN Invalid("Dead players cannot nominate")
    ELSE IF g.current_phase = DAY_DISCUSSION /\ get_current_speaker(g) # a.player_id
        THEN Invalid("Not your turn to nominate")
    ELSE IF ~IsPlayer(g, a.target_id) THEN Invalid("Target player not found")
    ELSE IF ~g.players[a.target_id].is_alive THEN Invalid("Cannot nominate dead players")
    ELSE IF a.player_id = a.target_id THEN Invalid("Cannot nominate yourself")
    ELSE Valid

VoteAction_validate(a, g) ==
    IF g.current_phase # DAY_VOTING THEN Invalid("Can only vote during voting phase")
    ELSE IF ~IsPlayer(g, a.player_id) THEN Invalid("Player not found")
    ELSE IF ~g.players[a.player_id].is_alive THEN Invalid("Dead players cannot vote")
    ELSE IF g.voting_state = NoObject THEN Invalid("No voting in progress")
    ELSE IF a.nominee_id \notin {g.voting_state[1].nominee1_id, g.voting_state[1].nominee2_id}
        THEN Invalid("Can only vote for one of the two nominees")
    ELSE IF a.player_id \in DOMAIN g.voting_state[1].votes THEN Invalid("Already voted")
    ELSE Valid

PassAction_validate_any_actor(a, g) ==
    IF g.current_phase \notin {DAY_DISCUSSION, DAY_NOMINATION, DAY_JUDGMENT}
        THEN Invalid("Can only pass during discussion, nomination, or judgment phase")
    ELSE IF ~IsPlayer(g, a.player_id) THEN Invalid("Player not found")
    ELSE IF g.current_phase = DAY_DISCUSSION /\ get_current_speaker(g) # a.player_id
        THEN Invalid("Not your turn to pass")
    ELSE Valid

PassAction_validate(a, g) ==
    IF g.current_phase \notin {DAY_DISCUSSION, DAY_NOMINATION, DAY_JUDGMENT}
        THEN Invalid("Can only pass during discussion, nomination, or judgment phase")
    ELSE IF ~IsPlayer(g, a.player_id) THEN Invalid("Player not found")
    ELSE IF ~g.players[a.player_id].is_alive THEN Invalid("Dead players cannot pass")
    ELSE IF g.current_phase = DAY_DISCUSSION /\ get_current_speaker(g) # a.player_id
        THEN Invalid("Not your turn to pass")
    ELSE Valid

JudgmentVoteAction_validate(a, g) ==
    IF g.current_phase # DAY_JUDGMENT THEN Invalid("Can only vote during judgment phase")
    ELSE IF ~IsPlayer(g, a.player_id) THEN Invalid("Player not found")
    ELSE IF ~g.players[a.player_id].is_alive THEN Invalid("Dead players cannot vote")
    ELSE IF g.trial_state = NoObject THEN Invalid("No trial in progress")
    ELSE IF a.player_id = g.trial_state[1].defendant_id THEN Invalid("Defendant cannot vote")
    ELSE IF a.player_id \in DOMAIN g.trial_state[1].votes THEN Invalid("Already voted")
    ELSE IF upper(a.vote) \notin {"GUILTY", "INNOCENT"}
        THEN Invalid("Vote must be GUILTY or INNOCENT")
    ELSE Valid

\* A NightAction.validate without the role-specific checks
NightAction_validate_any_role(a, g) ==
    IF g.current_phase # NIGHT
        THEN Invalid("Can only perform night actions during night phase")
    ELSE IF ~IsPlayer(g, a.player_id) THEN Invalid("Player not found")
    ELSE IF ~g.players[a.player_id].is_alive
        THEN Invalid("Dead players cannot perform actions")
    ELSE IF ~IsPlayer(g, a.target_id) THEN Invalid("Target player not found")
    ELSE IF ~g.players[a.target_id].is_alive THEN Invalid("Cannot target dead players")
    ELSE IF a.player_id = a.target_id /\ a.night_action_type # SAVE
        THEN Invalid("Cannot target yourself")
    ELSE Valid

NightAction_validate(a, g) ==
    IF g.current_phase # NIGHT
        THEN Invalid("Can only perform night actions during night phase")
    ELSE IF ~IsPlayer(g, a.player_id) THEN Invalid("Player not found")
    ELSE IF ~g.players[a.player_id].is_alive
        THEN Invalid("Dead players cannot perform actions")
    ELSE IF ~IsPlayer(g, a.target_id) THEN Invalid("Target player not found")
    ELSE IF ~g.players[a.target_id].is_alive THEN Invalid("Cannot target dead players")
    ELSE IF a.player_id = a.target_id /\ a.night_action_type # SAVE
        THEN Invalid("Cannot target yourself")
    ELSE IF a.night_action_type = KILL /\ g.players[a.player_id].role # MAFIA
        THEN Invalid("Only Mafia can kill")
    ELSE IF a.night_action_type = SAVE /\ g.players[a.player_id].role # DOCTOR
        THEN Invalid("Only Doctor can save")
    ELSE IF a.night_action_type = INVESTIGATE /\ g.players[a.player_id].role # DETECTIVE
        THEN Invalid("Only Detective can investigate")
    ELSE Valid

\* action.validate(game_state): dispatch on the action's class
validate(a, g) ==
    CASE a.action_type = SPEAK -> SpeakAction_validate(a, g)
      [] a.action_type = NOMINATE -> NominateAction_validate(a, g)
      [] a.action_type = VOTE -> VoteAction_validate(a, g)
      [] a.action_type = PASS -> PassAction_validate(a, g)
      [] a.action_type = JUDGMENT_VOTE -> JudgmentVoteAction_validate(a, g)
      [] a.action_type = NIGHT_ACTION -> NightAction_validate(a, g)

-----------------------------------------------------------------------------
(* game/voting.py *)

check_should_transition_to_voting(g) == Len(get_successful_nominations(g)) >= 2

\* Called only when check_should_transition_to_voting holds.
initialize_voting(g) ==
    LET successful_nominations == get_successful_nominations(g)
        nominee1_id == successful_nominations[1]
        nominee2_id == successful_nominations[2]
        g1 == [g EXCEPT !.voting_state = Some(VotingState(nominee1_id, nominee2_id)),
                        !.current_phase = DAY_VOTING]
    IN  add_event(g1, "PHASE_CHANGE", None, None,
                  [nominee1_id |-> nominee1_id, nominee2_id |-> nominee2_id])

\* Returns the state left behind and the message of the ValueError raised
\* (None: no exception).
\* A process_vote that records whatever it is given
process_vote_unchecked(g, voter_id, nominee_id) ==
    IF g.voting_state = NoObject THEN [g |-> g, error |-> "No voting in progress"]
    ELSE LET g1 == [g EXCEPT !.voting_state[1].votes = MapPut(@, voter_id, nominee_id)]
         IN  [g |-> add_event(g1, "VOTE", voter_id, nominee_id, NoData), error |-> None]

process_vote(g, voter_id, nominee_id) ==
    IF g.voting_state = NoObject THEN [g |-> g, error |-> "No voting in progress"]
    ELSE IF voter_id \in DOMAIN g.voting_state[1].votes
        THEN [g |-> g, error |-> "Player has already voted"]
    ELSE IF nominee_id \notin {g.voting_state[1].nominee1_id, g.voting_state[1].nominee2_id}
        THEN [g |-> g, error |-> "Invalid nominee"]
    ELSE LET g1 == [g EXCEPT !.voting_state[1].votes = MapPut(@, voter_id, nominee_id)]
         IN  [g |-> add_event(g1, "VOTE", voter_id, nominee_id, NoData), error |-> None]

\* Returns the state left behind and the eliminated player id (None: not all
\* votes are in, or a tie).  Called with an active voting_state.
\* A complete_voting that leaves the ballot in place
complete_voting_keeps_ballot(g) ==
    LET alive_count == Len(get_alive_players(g))
        eliminated_id == voting_get_result(g.voting_state[1])
    IN  IF ~voting_is_complete(g.voting_state[1], alive_count)
        THEN [g |-> g, eliminated_id |-> None]
        ELSE IF eliminated_id # None
        THEN LET g1 == [g EXCEPT !.players[eliminated_id].is_alive = FALSE]
                 g2 == add_event(g1, "ELIMINATE", eliminated_id, None,
                                 [role |-> g.players[eliminated_id].role,
                                  team |-> g.players[eliminated_id].team])
                 g3 == [g2 EXCEPT !.nominations = << >>]
             IN  [g |-> reset_speaker_order(g3), eliminated_id |-> eliminated_id]
        ELSE LET g3 == [g EXCEPT !.nominations = << >>]
             IN  [g |-> reset_speaker_order(g3), eliminated_id |-> None]

complete_voting(g) ==
    LET alive_count == Len(get_alive_players(g))
        eliminated_id == voting_get_result(g.voting_state[1])
    IN  IF ~voting_is_complete(g.voting_state[1], alive_count)
        THEN [g |-> g, eliminated_id |-> None]
        ELSE IF eliminated_id # None
        THEN LET g1 == [g EXCEPT !.players[eliminated_id].is_alive = FALSE]
                 g2 == add_event(g1, "ELIMINATE", eliminated_id, None,
                                 [role |-> g.players[eliminated_id].role,
                                  team |-> g.players[eliminated_id].team])
                 g3 == [g2 EXCEPT !.voting_state = NoObject, !.nominations = << >>]
             IN  [g |-> reset_speaker_order(g3), eliminated_id |-> eliminated_id]
        ELSE LET g3 == [g EXCEPT !.voting_state = NoObject, !.nominations = << >>]
             IN  [g |-> reset_speaker_order(g3), eliminated_id |-> None]

-----------------------------------------------------------------------------
(* game/phases.py *)

Result(g, ok, msg) == [g |-> g, ok |-> ok, msg |-> msg]

transition_to_night(g) ==
    add_event([g EXCEPT !.current_phase = NIGHT], "PHASE_CHANGE", None, None, NoData)

\* A transition_to_day at which the dead rise again
transition_to_day_reviving(g) ==
    LET g1 == [g EXCEPT !.day = @ + 1, !.current_phase = DAY_DISCUSSION,
                        !.players = [p \in DOMAIN g.players |->
                                        [g.players[p] EXCEPT !.is_alive = TRUE]]]
        g2 == [reset_speaker_order(g1) EXCEPT !.nominations = << >>]
    IN  add_event(g2, "PHASE_CHANGE", None, None, NoData)

transition_to_day(g) ==
    LET g1 == [g EXCEPT !.day = @ + 1, !.current_phase = DAY_DISCUSSION]
        g2 == [reset_speaker_order(g1) EXCEPT !.nominations = << >>]
    IN  add_event(g2, "PHASE_CHANGE", None, None, NoData)

\* game_state.winner = winner; current_phase = GAME_END; is_complete = True
end_game(g, winner) ==
    [g EXCEPT !.winner = winner, !.current_phase = GAME_END, !.is_complete = TRUE]

process_discussion_action(g, a) ==
    CASE a.action_type = SPEAK ->
            Result(advance_speaker(
                     add_event(g, "SPEAK", a.player_id, None, [message |-> a.message])),
                   TRUE, None)
      [] a.action_type = NOMINATE ->
            LET g1 == add_nomination(g, a.player_id, a.target_id)
                g2 == add_event(g1, "NOMINATE", a.player_id, a.target_id, NoData)
            IN  IF check_should_transition_to_voting(g2)
                THEN Result(initialize_voting(g2), TRUE, "Voting phase initiated")
                ELSE Result(advance_speaker(g2), TRUE, None)
      [] a.action_type = PASS -> Result(advance_speaker(g), TRUE, None)
      [] OTHER -> Result(g, FALSE, "Invalid action for discussion phase")

process_voting_action(g, a) ==
    IF a.action_type = VOTE
    THEN LET voted == process_vote(g, a.player_id, a.nominee_id)
             done == complete_voting(voted.g)
             winner == check_win_conditions(done.g)
         IN  IF voted.error # None THEN Result(voted.g, FALSE, voted.error)
             ELSE IF done.eliminated_id # None
             THEN IF winner # None
                  THEN Result(end_game(done.g, winner), TRUE, "Game over!")
                  ELSE Result(transition_to_night(done.g), TRUE,
                              "Player eliminated. Moving to night phase.")
             ELSE Result(done.g, TRUE, None)
    ELSE Result(g, FALSE, "Invalid action for voting phase")

process_night_action(g, a) ==
    IF a.action_type # NIGHT_ACTION
    THEN Result(g, FALSE, "Invalid action for night phase")
    ELSE CASE a.night_action_type = KILL ->
                Result(add_event(g, "NIGHT_ACTION", a.player_id, a.target_id,
                                 [action_type |-> KILL]), TRUE, None)
           [] a.night_action_type = SAVE ->
                Result(add_event(g, "NIGHT_ACTION", a.player_id, a.target_id,
                                 [action_type |-> SAVE]), TRUE, None)
           [] a.night_action_type = INVESTIGATE ->
                Result(add_event(g, "NIGHT_ACTION", a.player_id, a.target_id,
                                 [action_type |-> INVESTIGATE,
                                  result |-> g.players[a.target_id].role]), TRUE, None)

process_action_turn_consumed(g, a) ==
    LET v == validate(a, g)
    IN  IF ~v.ok THEN Result(advance_speaker(g), FALSE, v.error)
        ELSE IF g.current_phase = DAY_DISCUSSION THEN process_discussion_action(g, a)
        ELSE IF g.current_phase = DAY_VOTING THEN process_voting_action(g, a)
        ELSE IF g.current_phase = NIGHT THEN process_night_action(g, a)
        ELSE Result(g, FALSE, "Invalid phase for action")

process_action(g, a) ==
    LET v == validate(a, g)
    IN  IF ~v.ok THEN Result(g, FALSE, v.error)
        ELSE IF g.current_phase = DAY_DISCUSSION THEN process_discussion_action(g, a)
        ELSE IF g.current_phase = DAY_VOTING THEN process_voting_action(g, a)
        ELSE IF g.current_phase = NIGHT THEN process_night_action(g, a)
        ELSE Result(g, FALSE, "Invalid phase for action")

\* A lookup that keeps the first action of `kind` instead of the last
FirstTarget(night_actions, kind) ==
    LET of_kind == SelectSeq(night_actions, LAMBDA a : a.night_action_type = kind)
    IN  IF of_kind = << >> THEN None ELSE of_kind[1].target_id

\* The target of the last action of `kind` in night_actions (a sequence of
\* NightAction in the dict's insertion order), None when there is none.
LastTarget(night_actions, kind) ==
    LET of_kind == SelectSeq(night_actions, LAMBDA a : a.night_action_type = kind)
    IN  IF of_kind = << >> THEN None ELSE of_kind[Len(of_kind)].target_id

process_night_results_unprotected(g, night_actions) ==
    LET kill_target_id == LastTarget(night_actions, KILL)
        g1 == IF kill_target_id # None
              THEN add_event([g EXCEPT !.players[kill_target_id].is_alive = FALSE],
                             "KILL", None, kill_target_id,
                             [role |-> g.players[kill_target_id].role,
                              team |-> g.players[kill_target_id].team])
              ELSE g
        winner == check_win_conditions(g1)
    IN  IF winner # None THEN end_game(g1, winner)
        ELSE transition_to_day(g1)

process_night_results(g, night_actions) ==
    LET kill_target_id == LastTarget(night_actions, KILL)
        save_target_id == LastTarget(night_actions, SAVE)
        g1 == IF kill_target_id # None /\ kill_target_id # save_target_id
              THEN add_event([g EXCEPT !.players[kill_target_id].is_alive = FALSE],
                             "KILL", None, kill_target_id,
                             [role |-> g.players[kill_target_id].role,
                              team |-> g.players[kill_target_id].team])
              ELSE g
        winner == check_win_conditions(g1)
    IN  IF winner # None THEN end_game(g1, winner)
        ELSE transition_to_day(g1)

-----------------------------------------------------------------------------
(* llm/agent.py *)

\* LLMAgent.get_action: the model's answer, turned into an action, is returned
\* when it validates against the game state; anything else becomes a PASS.
get_action(g, response) ==
    IF validate(response, g).ok THEN response ELSE PassAction(response.player_id)

-----------------------------------------------------------------------------
(* cli.py: MafiaCLI, the phase runner *)

max_rounds_per_player == 2

Msg == "I'm thinking..."

Prefix(s, n) == SubSeq(s, 1, IF Len(s) < n THEN Len(s) ELSE n)

\* The sets of agents that stay silent during one phase run.
SilentSets(alive) == SUBSET Range(Prefix(alive, MaxSilent))

\* What the agent of player p answers when asked to speak.
SpeechOf(p, silent) == IF p \in silent THEN PassAction(p) ELSE SpeakAction(p, Msg)

\* _run_discussion: the loop body, once per (round, player)
RECURSIVE DiscussionTurns(_, _, _)
DiscussionTurns(g, turns, silent) ==
    IF turns = << >> THEN g
    ELSE LET player == Head(turns)
             action == get_action(g, SpeechOf(player, silent))
             g1 == IF action.action_type = SPEAK
                   THEN add_event(g, "SPEAK", player, None, [message |-> action.message])
                   ELSE g
         IN  DiscussionTurns(advance_speaker(g1), Tail(turns), silent)

RECURSIVE Repeat(_, _)
Repeat(s, n) == IF n = 0 THEN << >> ELSE s \o Repeat(s, n - 1)

_run_discussion(g, silent) ==
    LET alive_players == get_alive_players(g)
        g1 == DiscussionTurns(g, Repeat(alive_players, max_rounds_per_player), silent)
    IN  [reset_speaker_order([g1 EXCEPT !.current_phase = DAY_NOMINATION])
            EXCEPT !.nominations = << >>, !.who_nominated = EmptyMap]

_transition_to_night_keeps_trial(g) ==
    reset_speaker_order(
        [g EXCEPT !.day = @ + 1, !.current_phase = NIGHT,
                  !.nominations = << >>, !.who_nominated = EmptyMap])

_transition_to_night(g) ==
    reset_speaker_order(
        [g EXCEPT !.day = @ + 1, !.current_phase = NIGHT, !.trial_state = NoObject,
                  !.nominations = << >>, !.who_nominated = EmptyMap])

\* valid_targets of _run_nominations
NominationTargets(alive_players, player) ==
    SelectSeq(alive_players, LAMBDA t : t # player)

\* self.game.nominations[target_id].append(player_id), creating the list first
RecordNomination(g, player, target_id) ==
    LET n1 == IF target_id \in NomTargets(g.nominations) THEN g.nominations
              ELSE Append(g.nominations, [target |-> target_id, nominators |-> << >>])
        i  == NomIndex(n1, target_id)
    IN  [g EXCEPT !.who_nominated = MapPut(@, player, target_id),
                  !.nominations = [n1 EXCEPT ![i].nominators = Append(@, player)]]

\* _run_nominations: the loop over alive_players; targets[p] is the target the
\* agent of p names or, failing that, the random fallback draws.
RECURSIVE NominationTurns(_, _, _)
NominationTurns(g, todo, targets) ==
    IF todo = << >> THEN g
    ELSE LET player == Head(todo)
         IN  IF player \in DOMAIN g.who_nominated
             THEN NominationTurns(g, Tail(todo), targets)
             ELSE LET g1 == RecordNomination(g, player, targets[player])
                      g2 == add_event(g1, "NOMINATE", player, targets[player], NoData)
                  IN  NominationTurns(g2, Tail(todo), targets)

MostNominated_any(noms) == {noms[i].target : i \in DOMAIN noms}

\* The targets holding the top nomination count
MostNominated(noms) ==
    {noms[i].target : i \in {j \in DOMAIN noms :
        \A k \in DOMAIN noms : Len(noms[k].nominators) <= Len(noms[j].nominators)}}

_run_nominations_always_trial(g, targets, defendant_id) ==
    LET g1 == NominationTurns(g, get_alive_players(g), targets)
    IN  [g1 EXCEPT !.trial_state = Some(TrialState(defendant_id)),
                   !.current_phase = DAY_DEFENSE]

_run_nominations(g, targets, defendant_id) ==
    LET g1 == NominationTurns(g, get_alive_players(g), targets)
    IN  IF g1.nominations = << >> THEN _transition_to_night(g1)
        ELSE [g1 EXCEPT !.trial_state = Some(TrialState(defendant_id)),
                        !.current_phase = DAY_DEFENSE]

\* One statement of _run_defense: the SPEAK event when the agent speaks
DefenseSpeech(g, player, silent, context) ==
    LET action == get_action(g, SpeechOf(player, silent))
    IN  IF action.action_type = SPEAK
        THEN add_event(g, "SPEAK", player, None,
                       [message |-> action.message, context |-> context])
        ELSE g

RECURSIVE TownResponds(_, _, _)
TownResponds(g, todo, silent) ==
    IF todo = << >> THEN g
    ELSE TownResponds(DefenseSpeech(g, Head(todo), silent, "town_response"),
                      Tail(todo), silent)

\* A _run_defense whose town response round asks the defendant as well
_run_defense_defendant_responds(g, silent) ==
    IF g.trial_state = NoObject THEN g
    ELSE LET defendant == g.trial_state[1].defendant_id
             g1 == DefenseSpeech(g, defendant, silent, "opening_defense")
             g2 == TownResponds(g1, get_alive_players(g1), silent)
             g3 == DefenseSpeech(g2, defendant, silent, "closing_defense")
         IN  [g3 EXCEPT !.trial_state[1].defense_phase = "done",
                        !.current_phase = DAY_JUDGMENT]

_run_defense(g, silent) ==
    IF g.trial_state = NoObject THEN g
    ELSE LET defendant == g.trial_state[1].defendant_id
             g1 == DefenseSpeech(g, defendant, silent, "opening_defense")
             others == SelectSeq(get_alive_players(g1), LAMBDA p : p # defendant)
             g2 == TownResponds(g1, others, silent)
             g3 == DefenseSpeech(g2, defendant, silent, "closing_defense")
         IN  [g3 EXCEPT !.trial_state[1].defense_phase = "done",
                        !.current_phase = DAY_JUDGMENT]

\* The players _run_judgment asks for a vote
\* A _run_judgment that asks the defendant too
JudgmentVoters_with_defendant(g) ==
    SelectSeq(get_alive_players(g), LAMBDA p : p \notin DOMAIN g.trial_state[1].votes)

JudgmentVoters(g) ==
    SelectSeq(get_alive_players(g),
              LAMBDA p : p # g.trial_state[1].defendant_id
                         /\ p \notin DOMAIN g.trial_state[1].votes)

RECURSIVE CastVotes(_, _, _)
CastVotes(g, todo, vote_guilty) ==
    IF todo = << >> THEN g
    ELSE CastVotes([g EXCEPT !.trial_state[1].votes =
                                MapPut(@, Head(todo), vote_guilty[Head(todo)])],
                   Tail(todo), vote_guilty)

_run_judgment(g, vote_guilty) ==
    IF g.trial_state = NoObject THEN g
    ELSE LET defendant == g.trial_state[1].defendant_id
             voters == JudgmentVoters(g)
             guilty_votes == Cardinality({p \in Range(voters) : vote_guilty[p]})
             innocent_votes == Cardinality({p \in Range(voters) : ~vote_guilty[p]})
             g1 == CastVotes(g, voters, vote_guilty)
             g2 == add_event([g1 EXCEPT !.players[defendant].is_alive = FALSE],
                             "ELIMINATE", defendant, None,
                             [role |-> g1.players[defendant].role,
                              team |-> g1.players[defendant].team,
                              votes |-> g1.trial_state[1].votes])
             winner == check_win_conditions(g2)
         IN  IF guilty_votes > innocent_votes
             THEN IF winner # None
                  THEN [g2 EXCEPT !.winner = winner, !.is_complete = TRUE]
                  ELSE _transition_to_night(g2)
             ELSE _transition_to_night(g1)

\* The night role of a player and the players _run_night asks
NightKind(role) == CASE role = MAFIA -> KILL
                     [] role = DOCTOR -> SAVE
                     [] role = DETECTIVE -> INVESTIGATE
                     [] OTHER -> None

NightActors(g) ==
    SelectSeq(get_alive_players(g),
              LAMBDA p : g.players[p].role \in {MAFIA, DOCTOR, DETECTIVE})

\* valid_targets of _run_night
NightTargets(g, player) ==
    {t \in Range(get_alive_players(g)) : g.players[player].role = DOCTOR \/ t # player}

\* night_actions as _run_night collects it: targets[p] is the target the agent
\* of p names or the random fallback draws (None: there is no valid target).
CollectNightActions(g, targets) ==
    LET acting == SelectSeq(NightActors(g), LAMBDA p : targets[p] # None)
    IN  [i \in DOMAIN acting |->
            NightAction(acting[i], NightKind(g.players[acting[i]].role), targets[acting[i]])]

_run_night(g, targets) ==
    LET night_actions == CollectNightActions(g, targets)
        g1 == process_night_results(g, night_actions)
        g2 == reset_speaker_order([g1 EXCEPT !.current_phase = DAY_DISCUSSION])
        g3 == [g2 EXCEPT !.nominations = << >>, !.who_nominated = EmptyMap,
                         !.trial_state = NoObject]
        winner == check_win_conditions(g3)
    IN  IF night_actions = << >> THEN g
        ELSE IF winner # None THEN [g3 EXCEPT !.winner = winner, !.is_complete = TRUE]
        ELSE g3

\* create_game(num_players=5, num_mafia=2): the shuffled roles, by seat
CliRoles == {<<MAFIA, DOCTOR, VILLAGER, MAFIA, DETECTIVE>>}

create_game(roles) ==
    LET g1 == [NewGameState EXCEPT !.players =
                  [p \in {Seats[i] : i \in DOMAIN roles} |->
                      NewPlayer(roles[CHOOSE i \in DOMAIN roles : Seats[i] = p], FALSE)]]
    IN  [g1 EXCEPT !.is_started = TRUE, !.current_phase = NIGHT, !.day = 1]

-----------------------------------------------------------------------------
(* The CLI driver: one step per run_phase *)

\* last_op: the handler, whether it (and every process_action call it made)
\* reported success, and the player a request named or the value returned
Op(name, ok) == [op |-> name, ok |-> ok, detail |-> None]
OpWith(name, ok, detail) == [op |-> name, ok |-> ok, detail |-> detail]

CliDriven == driver = "cli" /\ Len(game.event_log) < MaxEvents

\* The target each night actor ends up with
NightTargetChoices(g) ==
    {f \in [Range(NightActors(g)) -> Range(Seats) \cup {None}] :
        \A p \in DOMAIN f : IF NightTargets(g, p) = {} THEN f[p] = None
                            ELSE f[p] \in NightTargets(g, p)}

\* The target each nominator ends up with
NominationChoices(g) ==
    LET alive_players == get_alive_players(g)
    IN  {f \in [Range(alive_players) -> Range(alive_players)] :
            \A p \in DOMAIN f :
                LET valid_targets == NominationTargets(alive_players, p)
                    named == SelectSeq(Prefix(alive_players, MaxNomTargets),
                                       LAMBDA t : t # p)
                IN  f[p] \in Range(IF named = << >> THEN Prefix(valid_targets, 1)
                                   ELSE named)}

CliRunNight ==
    /\ CliDriven
    /\ game.current_phase = NIGHT
    /\ \E targets \in NightTargetChoices(game) : game' = _run_night(game, targets)
    /\ last_op' = Op("_run_night", TRUE)
    /\ UNCHANGED <<driver, night_calls, pending_actions, loop_tasks>>

CliRunDiscussion ==
    /\ CliDriven
    /\ game.current_phase = DAY_DISCUSSION
    /\ \E silent \in SilentSets(get_alive_players(game)) :
          game' = _run_discussion(game, silent)
    /\ last_op' = Op("_run_discussion", TRUE)
    /\ UNCHANGED <<driver, night_calls, pending_actions, loop_tasks>>

\* With a single player alive random.choice([]) raises before anything is
\* recorded; process_command reports the error and the game is as before.
CliRunNominations ==
    /\ CliDriven
    /\ game.current_phase = DAY_NOMINATION
    /\ IF Len(get_alive_players(game)) = 1
       THEN /\ game' = game
            /\ last_op' = Op("_run_nominations", FALSE)
       ELSE /\ \E targets \in NominationChoices(game) :
                 \E defendant_id \in
                       MostNominated(NominationTurns(game, get_alive_players(game),
                                                     targets).nominations) \cup
                       (IF get_alive_players(game) = << >> THEN {None} ELSE {}) :
                    game' = _run_nominations(game, targets, defendant_id)
            /\ last_op' = Op("_run_nominations", TRUE)
    /\ UNCHANGED <<driver, night_calls, pending_actions, loop_tasks>>

CliRunDefense ==
    /\ CliDriven
    /\ game.current_phase = DAY_DEFENSE
    /\ \E silent \in SilentSets(get_alive_players(game)) :
          game' = _run_defense(game, silent)
    /\ last_op' = Op("_run_defense", game.trial_state # NoObject)
    /\ UNCHANGED <<driver, night_calls, pending_actions, loop_tasks>>

CliRunJudgment ==
    /\ CliDriven
    /\ game.current_phase = DAY_JUDGMENT
    /\ \E vote_guilty \in [Range(get_alive_players(game)) -> BOOLEAN] :
          game' = _run_judgment(game, vote_guilty)
    /\ last_op' = Op("_run_judgment", game.trial_state # NoObject)
    /\ UNCHANGED <<driver, night_calls, pending_actions, loop_tasks>>

-----------------------------------------------------------------------------
(* api/routes/games.py: the game routes *)

\* assign_roles, before random.shuffle
assign_roles(player_count) ==
    IF player_count = 8
    THEN Repeat(<<MAFIA>>, 2) \o <<DETECTIVE, DOCTOR>> \o Repeat(<<VILLAGER>>, 4)
    ELSE IF player_count < 6
    THEN <<MAFIA, DETECTIVE>> \o Repeat(<<VILLAGER>>, player_count - 2)
    ELSE LET mafia_count == IF player_count \div 4 > 2 THEN player_count \div 4 ELSE 2
         IN  Repeat(<<MAFIA>>, mafia_count) \o <<DETECTIVE, DOCTOR>>
                \o Repeat(<<VILLAGER>>, player_count - mafia_count - 2)

IsShuffleOf(r, roles) ==
    /\ Len(r) = Len(roles)
    /\ \A role \in Range(roles) \cup Range(r) :
          Cardinality({i \in DOMAIN r : r[i] = role})
              = Cardinality({i \in DOMAIN roles : roles[i] = role})

\* The shuffled roles of a five player game, by seat
ApiRoles ==
    {r \in {<<DETECTIVE, MAFIA, VILLAGER, VILLAGER, VILLAGER>>} :
        IsShuffleOf(r, assign_roles(Len(r)))}

\* POST /games: the first player is human when the request names one
RECURSIVE AddPlayers(_, _, _, _)
AddPlayers(g, roles, i, human_player_name) ==
    IF i > Len(roles) THEN g
    ELSE AddPlayers(add_player(g, Seats[i],
                               NewPlayer(roles[i], i = 1 /\ human_player_name)),
                    roles, i + 1, human_player_name)

api_create_game(roles, human_player_name) ==
    AddPlayers(NewGameState, roles, 1, human_player_name)

\* POST /games/{id}/join: the first non-human player becomes human
join_game(g) ==
    LET free == SelectSeq(PlayerSeq(g), LAMBDA p : ~g.players[p].is_human)
    IN  IF g.is_started \/ free = << >> THEN Result(g, FALSE, "400")
        ELSE Result([g EXCEPT !.players[free[1]].is_human = TRUE], TRUE, None)

-----------------------------------------------------------------------------
(* game/orchestrator.py: GameOrchestrator *)

HasPending(pend, p) == p \in DOMAIN pend /\ pend[p] # NoObject

\* The id under which register_game holds the game, and an id it does not hold
GameId == "g1"
UnknownGameId == "gx"

\* get_game: self.games.get(game_id)
get_game(g, game_id) == IF game_id = GameId THEN Some(g) ELSE NoObject

\* A submit_action that writes the slot before it validates
submit_action_store_first(g, pend, game_id, a) ==
    LET game_state == get_game(g, game_id)
        v == validate(a, g)
    IN  IF game_state = NoObject
        THEN [ok |-> FALSE, msg |-> "Game not found", pending |-> pend]
        ELSE [ok |-> v.ok, msg |-> v.error,
              pending |-> MapPut(pend, a.player_id, Some(a))]

\* submit_action: the action is stored only when the game is found and the
\* action validates
submit_action(g, pend, game_id, a) ==
    LET game_state == get_game(g, game_id)
        v == validate(a, g)
    IN  IF game_state = NoObject
        THEN [ok |-> FALSE, msg |-> "Game not found", pending |-> pend]
        ELSE IF ~v.ok THEN [ok |-> FALSE, msg |-> v.error, pending |-> pend]
        ELSE [ok |-> TRUE, msg |-> None, pending |-> MapPut(pend, a.player_id, Some(a))]

\* llm/agent.py get_random_action: the actions the fallback may draw
get_random_action(g, p) ==
    LET alive_ids == SelectSeq(get_alive_players(g), LAMBDA q : q # p)
    IN  IF g.current_phase = DAY_DISCUSSION
        THEN {PassAction(p), SpeakAction(p, Msg)}
                \cup {NominateAction(p, t) : t \in Range(alive_ids)}
        ELSE IF g.current_phase = DAY_VOTING /\ g.voting_state # NoObject
                /\ alive_ids # << >>
        THEN {VoteAction(p, n) : n \in {g.voting_state[1].nominee1_id,
                                        g.voting_state[1].nominee2_id}}
        ELSE IF g.current_phase = NIGHT /\ alive_ids # << >>
        THEN {NightAction(p, KILL, t) : t \in Range(alive_ids)}
        ELSE {PassAction(p)}

\* What a handler leaves behind; ok: no process_action call of it failed
Outcome(g, pend, ok) == [g |-> g, pending |-> pend, ok |-> ok]

\* The answers an agent's model gives for player p: any action of p whose
\* target, if it has one, is among the first MaxNomTargets players alive or
\* is no player.
AgentAnswers(g, p) ==
    LET named == Range(Prefix(get_alive_players(g), MaxNomTargets)) \cup {UnknownId}
    IN  {SpeakAction(p, m) : m \in Messages}
        \cup {NominateAction(p, t) : t \in named}
        \cup {VoteAction(p, n) : n \in named}
        \cup {PassAction(p)}
        \cup {JudgmentVoteAction(p, v) : v \in Verdicts}
        \cup {NightAction(p, k, t) : k \in NightActionTypes, t \in named}

\* handle_discussion_phase: the outcomes of one call, given the answer of the
\* current speaker's agent
handle_discussion_phase(g, pend, response) ==
    LET current_speaker == get_current_speaker(g)
        has_pending == HasPending(pend, current_speaker)
        r0 == IF has_pending THEN process_action(g, pend[current_speaker][1])
              ELSE Result(g, TRUE, None)
        pend0 == IF has_pending /\ r0.ok
                 THEN [pend EXCEPT ![current_speaker] = NoObject] ELSE pend
        r1 == process_action(r0.g, get_action(r0.g, response))
    IN  IF get_alive_players(g) = << >> THEN {Outcome(g, pend, TRUE)}
        ELSE IF has_pending /\ ~r0.ok THEN {Outcome(r0.g, pend, FALSE)}
        ELSE IF g.players[current_speaker].is_human THEN {Outcome(r0.g, pend0, TRUE)}
        ELSE IF r1.ok THEN {Outcome(r1.g, pend0, TRUE)}
        ELSE {Outcome(process_action(r1.g, fallback).g, pend0, FALSE) :
                 fallback \in get_random_action(r1.g, current_speaker)}

\* What the agent of player p answers when asked for its ballot vote
BallotAnswer(p, silent, votes) ==
    IF p \in silent THEN SpeakAction(p, Msg) ELSE VoteAction(p, votes[p])

\* handle_voting_phase: the loop over alive_players.  votes[p] is the nominee
\* the agent of p names and the nominee the random fallback draws.  The loop
\* raises AttributeError when it reads voting_state.votes after the ballot
\* has been completed (voting_state is None).
\* One turn of the loop for a player who is asked: the agent's answer, then
\* the random vote when that fails
VotingTurn(g, player, silent, votes) ==
    Apply(process_action(g, get_action(g, BallotAnswer(player, silent, votes))),
          LAMBDA r1 : IF r1.ok THEN r1.g
                      ELSE process_action(r1.g, VoteAction(player, votes[player])).g)

RECURSIVE VotingTurns(_, _, _, _)
VotingTurns(g, todo, silent, votes) ==
    IF todo = << >> THEN [g |-> g, raised |-> FALSE]
    ELSE IF g.voting_state = NoObject THEN [g |-> g, raised |-> TRUE]
    ELSE IF Head(todo) \in DOMAIN g.voting_state[1].votes \/ g.players[Head(todo)].is_human
    THEN VotingTurns(g, Tail(todo), silent, votes)
    ELSE Apply(VotingTurn(g, Head(todo), silent, votes),
               LAMBDA g1 : VotingTurns(g1, Tail(todo), silent, votes))

handle_voting_phase(g, silent, votes) ==
    LET alive_players == get_alive_players(g)
    IN  IF g.voting_state = NoObject THEN [g |-> g, raised |-> FALSE]
        ELSE Apply(VotingTurns(g, alive_players, silent, votes),
                   LAMBDA after :
                      IF after.raised THEN after
                      ELSE IF after.g.voting_state # NoObject
                              /\ voting_is_complete(after.g.voting_state[1],
                                                    Len(alive_players))
                      THEN Apply(complete_voting(after.g), LAMBDA done :
                              IF done.eliminated_id = None
                              THEN [g |-> done.g, raised |-> FALSE]
                              ELSE IF check_win_conditions(done.g) # None
                              THEN [g |-> end_game(done.g, check_win_conditions(done.g)),
                                    raised |-> FALSE]
                              ELSE [g |-> transition_to_night(done.g), raised |-> FALSE])
                      ELSE [g |-> after.g, raised |-> FALSE])

\* The roles handle_night_phase asks, in its order
NightRoles == <<MAFIA, DOCTOR, DETECTIVE>>

\* The players handle_night_phase visits, role by role
NightOrder(g) ==
    get_players_by_role(g, MAFIA) \o get_players_by_role(g, DOCTOR)
        \o get_players_by_role(g, DETECTIVE)

\* What the agent of player p answers at night (targets[p] = None: no night action)
NightAnswer(g, p, targets) ==
    IF targets[p] = None THEN PassAction(p)
    ELSE NightAction(p, NightKind(g.players[p].role), targets[p])

\* handle_night_phase: the collection loop; `got` is night_actions so far
RECURSIVE NightTurns(_, _, _, _, _)
NightTurns(g, pend, todo, targets, got) ==
    IF todo = << >> THEN [night_actions |-> got, pending |-> pend]
    ELSE LET player == Head(todo)
             action == get_action(g, NightAnswer(g, player, targets))
         IN  IF g.players[player].is_human
             THEN IF HasPending(pend, player) /\ pend[player][1].action_type = NIGHT_ACTION
                  THEN NightTurns(g, [pend EXCEPT ![player] = NoObject], Tail(todo),
                                  targets, Append(got, pend[player][1]))
                  ELSE NightTurns(g, pend, Tail(todo), targets, got)
             ELSE IF action.action_type = NIGHT_ACTION
                  THEN NightTurns(g, pend, Tail(todo), targets, Append(got, action))
                  ELSE NightTurns(g, pend, Tail(todo), targets, got)

\* handle_night_phase after the collection loop
handle_night_phase_resolve(g, collected) ==
    LET night_actions == collected.night_actions
        mafia_alive == get_players_by_role(g, MAFIA)
        mafia_action_exists ==
            \E i \in DOMAIN night_actions : night_actions[i].player_id \in Range(mafia_alive)
        g1 == process_night_results(g, night_actions)
        winner == check_win_conditions(g1)
    IN  IF mafia_alive # << >> /\ mafia_action_exists
        THEN IF winner # None THEN Outcome(end_game(g1, winner), collected.pending, TRUE)
             ELSE Outcome(transition_to_day(g1), collected.pending, TRUE)
        ELSE Outcome(g, collected.pending, TRUE)

handle_night_phase(g, pend, targets) ==
    handle_night_phase_resolve(g, NightTurns(g, pend, NightOrder(g), targets, << >>))

-----------------------------------------------------------------------------
(* The API driver: the routes and the iterations of run_game_loop *)

ApiDriven == driver = "api"

\* One more iteration of the `while not is_complete` loop is driven
LoopTurn ==
    /\ ApiDriven
    /\ loop_tasks > Len(night_calls)
    /\ game.is_started
    /\ ~game.is_complete
    /\ Len(game.event_log) < MaxLoopEvents

Submitters == Range(Prefix(Seats, MaxSubmitters))

\* start_game answers 400 and adds no task once is_started is set
ApiStartGame ==
    /\ ApiDriven
    /\ ~game.is_started
    /\ loop_tasks < MaxLoopTasks
    /\ loop_tasks' = loop_tasks + 1
    /\ last_op' = Op("start_game", TRUE)
    /\ UNCHANGED <<driver, night_calls, game, pending_actions>>

\* join_game answers 400 and changes nothing when it fails
ApiJoinGame ==
    /\ ApiDriven
    /\ Cardinality({p \in DOMAIN game.players : game.players[p].is_human}) < MaxHumans
    /\ join_game(game).ok
    /\ game' = join_game(game).g
    /\ last_op' = Op("join_game", TRUE)
    /\ UNCHANGED <<driver, night_calls, pending_actions, loop_tasks>>

\* The route and the orchestrator both answer an unknown game id without
\* storing; `replaced` records that the slot held an action before the call
ApiSubmitAction ==
    /\ ApiDriven
    /\ \E game_id \in {GameId, UnknownGameId} :
       \E a \in UNION {ActionsOf(p) : p \in Submitters} :
          LET r == submit_action(game, pending_actions, game_id, a)
          IN  /\ pending_actions' = r.pending
              /\ last_op' = OpWith("submit_action", r.ok,
                                   [player_id |-> a.player_id, message |-> r.msg,
                                    replaced |-> r.ok /\ HasPending(pending_actions, a.player_id)])
    /\ UNCHANGED <<driver, night_calls, game, loop_tasks>>

\* run_game_loop up to the while loop
LoopBegin ==
    /\ ApiDriven
    /\ loop_tasks > 0
    /\ ~game.is_started
    /\ game' = [game EXCEPT !.is_started = TRUE]
    /\ last_op' = Op("run_game_loop", TRUE)
    /\ UNCHANGED <<driver, night_calls, pending_actions, loop_tasks>>

LoopDiscussion ==
    /\ LoopTurn
    /\ game.current_phase = DAY_DISCUSSION
    /\ game.current_speaker_idx < MaxSpeakerIdx
    /\ \E response \in AgentAnswers(game, get_current_speaker(game)) :
          \E out \in handle_discussion_phase(game, pending_actions, response) :
             /\ game' = out.g
             /\ pending_actions' = out.pending
             /\ last_op' = Op("handle_discussion_phase", out.ok)
    /\ UNCHANGED <<driver, night_calls, loop_tasks>>

\* The nominee each voter ends up naming: the first k voters alive name
\* nominee1, the others nominee2.
BallotChoices(g) ==
    LET alive_players == get_alive_players(g)
    IN  IF g.voting_state = NoObject THEN {[p \in Range(alive_players) |-> None]}
        ELSE {[p \in Range(alive_players) |->
                  IF p \in Range(Prefix(alive_players, k))
                  THEN g.voting_state[1].nominee1_id
                  ELSE g.voting_state[1].nominee2_id] : k \in 0..Len(alive_players)}

\* An exception raised by the handler ends the background task.
LoopVoting ==
    /\ LoopTurn
    /\ game.current_phase = DAY_VOTING
    /\ \E silent \in SilentSets(get_alive_players(game)) :
          \E votes \in BallotChoices(game) :
             \E out \in {handle_voting_phase(game, silent, votes)} :
                /\ game' = out.g
                /\ loop_tasks' = IF out.raised THEN loop_tasks - 1 ELSE loop_tasks
                /\ last_op' = Op("handle_voting_phase", ~out.raised)
    /\ UNCHANGED <<driver, night_calls, pending_actions>>

LoopNight ==
    /\ LoopTurn
    /\ game.current_phase = NIGHT
    /\ \E targets \in [Range(NightOrder(game)) -> Range(get_alive_players(game)) \cup {None}] :
          LET out == handle_night_phase(game, pending_actions, targets)
          IN  /\ game' = out.g
              /\ pending_actions' = out.pending
    /\ last_op' = Op("handle_night_phase", TRUE)
    /\ UNCHANGED <<driver, night_calls, loop_tasks>>

\* `while not is_complete` is false, or the GAME_END break: the task returns
LoopExit ==
    /\ ApiDriven
    /\ loop_tasks > Len(night_calls)
    /\ game.is_started
    /\ game.is_complete \/ game.current_phase = GAME_END
    /\ loop_tasks' = loop_tasks - 1
    /\ last_op' = Op("run_game_loop", FALSE)
    /\ UNCHANGED <<driver, night_calls, game, pending_actions>>

-----------------------------------------------------------------------------
InitCli ==
    /\ driver = "cli"
    /\ \E roles \in CliRoles : game = create_game(roles)
    /\ pending_actions = EmptyMap
    /\ loop_tasks = 0
    /\ night_calls = << >>
    /\ last_op = Op("create_game", TRUE)

InitApi ==
    /\ driver = "api"
    /\ \E roles \in ApiRoles : \E human_player_name \in BOOLEAN :
          game = api_create_game(roles, human_player_name)
    /\ pending_actions = EmptyMap
    /\ loop_tasks = 0
    /\ night_calls = << >>
    /\ last_op = Op("create_game", TRUE)

Init == InitCli \/ InitApi

Next ==
    \/ CliRunNight
    \/ CliRunDiscussion
    \/ CliRunNominations
    \/ CliRunDefense
    \/ CliRunJudgment
    \/ ApiStartGame
    \/ ApiJoinGame
    \/ ApiSubmitAction
    \/ LoopBegin
    \/ LoopDiscussion
    \/ LoopVoting
    \/ LoopNight
    \/ LoopExit

Spec == Init /\ [][Next]_vars

-----------------------------------------------------------------------------
(* api/routes/games.py, game/orchestrator.py: a game of four players made by *)
(* POST /games with player_count 4, driven by the background loop            *)

\* The shuffled roles of a four player game, by seat
BallotRoles ==
    {r \in {<<VILLAGER, MAFIA, DETECTIVE, VILLAGER>>} :
        IsShuffleOf(r, assign_roles(Len(r)))}

InitBallot ==
    /\ driver = "api"
    /\ \E roles \in BallotRoles : \E human_player_name \in BOOLEAN :
          game = api_create_game(roles, human_player_name)
    /\ pending_actions = EmptyMap
    /\ loop_tasks = 0
    /\ night_calls = << >>
    /\ last_op = Op("create_game", TRUE)

NextBallot ==
    \/ ApiStartGame
    \/ ApiJoinGame
    \/ ApiSubmitAction
    \/ LoopBegin
    \/ LoopDiscussion
    \/ LoopVoting
    \/ LoopNight
    \/ LoopExit

SpecBallot == InitBallot /\ [][NextBallot]_vars

-----------------------------------------------------------------------------
(* game/orchestrator.py: handle_night_phase is a coroutine; while it awaits  *)
(* the answer of an agent the other run_game_loop tasks and the routes run.  *)
(* The call is split at the await on the last player it asks.                *)

\* The collection loop up to the await on the last player of the night
\* order, an agent's player: the actions collected so far are held by the call
LoopNightAwait ==
    /\ LoopTurn
    /\ game.current_phase = NIGHT
    /\ NightOrder(game) # << >>
    /\ LET order == NightOrder(game)
           asked == order[Len(order)]
       IN  /\ ~game.players[asked].is_human
           /\ \E targets \in [Range(order) -> Range(get_alive_players(game)) \cup {None}] :
                 \E collected \in {NightTurns(game, pending_actions,
                                               SubSeq(order, 1, Len(order) - 1),
                                               targets, << >>)} :
                     /\ night_calls' = Append(night_calls,
                                              [got |-> collected.night_actions,
                                               asked |-> asked])
                     /\ pending_actions' = collected.pending
    /\ last_op' = Op("handle_night_phase (await)", TRUE)
    /\ UNCHANGED <<driver, game, loop_tasks>>

\* The agent answers: get_action validates the answer against the game as it
\* is now, and the call runs to its end with the actions it holds
LoopNightResume ==
    /\ ApiDriven
    /\ \E i \in DOMAIN night_calls :
          \E target \in Range(get_alive_players(game)) \cup {None} :
             \E collected \in {NightTurns(game, pending_actions, <<night_calls[i].asked>>,
                                           [p \in {night_calls[i].asked} |-> target],
                                           night_calls[i].got)} :
                \E out \in {handle_night_phase_resolve(game, collected)} :
                   /\ game' = out.g
                   /\ pending_actions' = out.pending
                   /\ night_calls' = SubSeq(night_calls, 1, i - 1)
                                        \o SubSeq(night_calls, i + 1, Len(night_calls))
                   /\ last_op' = OpWith("handle_night_phase (resumed)", TRUE,
                                        collected.night_actions)
    /\ UNCHANGED <<driver, loop_tasks>>

\* The shuffled roles of a five player game whose first seat is a villager's
NightsRoles ==
    {r \in {<<VILLAGER, MAFIA, DETECTIVE, VILLAGER, VILLAGER>>} :
        IsShuffleOf(r, assign_roles(Len(r)))}

\* A game of agents only, with no request but start_game
InitNights ==
    /\ driver = "api"
    /\ \E roles \in NightsRoles : game = api_create_game(roles, FALSE)
    /\ pending_actions = EmptyMap
    /\ loop_tasks = 0
    /\ night_calls = << >>
    /\ last_op = Op("create_game", TRUE)

NextNights ==
    \/ ApiStartGame
    \/ LoopBegin
    \/ LoopDiscussion
    \/ LoopVoting
    \/ LoopNight
    \/ LoopNightAwait
    \/ LoopNightResume
    \/ LoopExit

SpecNights == InitNights /\ [][NextNights]_vars

-----------------------------------------------------------------------------
(* cli.py process_command: the phase runner together with the debug command *)
(* `kill`, on a game made by `new 3 1`                                      *)

\* `kill` is issued only while the event log is shorter than this
MaxKillEvents == 2

\* process_command, command == "kill": no event is logged, the phase stays
kill(g, player_id) ==
    LET g1 == [g EXCEPT !.players[player_id].is_alive = FALSE]
        winner == check_win_conditions(g1)
    IN  IF winner # None THEN [g1 EXCEPT !.winner = winner, !.is_complete = TRUE]
        ELSE g1

CliKill ==
    /\ CliDriven
    /\ Len(game.event_log) < MaxKillEvents
    /\ \E player_id \in DOMAIN game.players \cup {UnknownId} :
          IF player_id \in DOMAIN game.players
          THEN /\ game' = kill(game, player_id)
               /\ last_op' = OpWith("kill", TRUE, player_id)
          ELSE /\ game' = game
               /\ last_op' = OpWith("kill", FALSE, player_id)
    /\ UNCHANGED <<driver, night_calls, pending_actions, loop_tasks>>

\* create_game(num_players=3, num_mafia=1): the shuffled roles, by seat
CommandRoles == {<<MAFIA, DOCTOR, DETECTIVE>>}

InitCommands ==
    /\ driver = "cli"
    /\ \E roles \in CommandRoles : game = create_game(roles)
    /\ pending_actions = EmptyMap
    /\ loop_tasks = 0
    /\ night_calls = << >>
    /\ last_op = Op("create_game", TRUE)

NextCommands ==
    \/ CliRunNight
    \/ CliRunDiscussion
    \/ CliRunNominations
    \/ CliRunDefense
    \/ CliRunJudgment
    \/ CliKill

SpecCommands == InitCommands /\ [][NextCommands]_vars

-----------------------------------------------------------------------------
(* cli.py process_command: the command `night`, on a new game of five        *)

\* `night` is issued only while the event log is shorter than this
MaxNightCommands == 2

\* process_command, command == "night"
night(g, player_id, night_type, target_id) ==
    process_action(g, NightAction(player_id, night_type, target_id))

CliNight ==
    /\ driver = "cli"
    /\ Len(game.event_log) < MaxNightCommands
    /\ \E player_id \in AnyIds, night_type \in NightActionTypes, target_id \in AnyIds :
          \E r \in {night(game, player_id, night_type, target_id)} :
             /\ game' = r.g
             /\ last_op' = OpWith("night", r.ok,
                                  NightAction(player_id, night_type, target_id))
    /\ UNCHANGED <<driver, night_calls, pending_actions, loop_tasks>>

SpecInvestigate == InitCli /\ [][CliNight]_vars

\* api/routes/games.py get_events: the whole event log, data included
get_events(g) == g.event_log

-----------------------------------------------------------------------------
(* check_win_conditions on its own: any game of up to MaxWinPlayers players, *)
(* each of any role, alive or dead                                          *)

Roles == {MAFIA, VILLAGER, DETECTIVE, DOCTOR}

WinGames ==
    {[NewGameState EXCEPT !.players = players] :
        players \in UNION {[Range(Prefix(Seats, n)) ->
                               {[NewPlayer(role, FALSE) EXCEPT !.is_alive = alive] :
                                   role \in Roles, alive \in BOOLEAN}] :
                           n \in 0..MaxWinPlayers}}

InitWin ==
    /\ driver = "none"
    /\ game \in WinGames
    /\ pending_actions = EmptyMap
    /\ loop_tasks = 0
    /\ night_calls = << >>
    /\ last_op = Op("GameState", TRUE)

CheckWin ==
    /\ driver = "none"
    /\ last_op.op = "GameState"
    /\ last_op' = OpWith("check_win_conditions", TRUE, check_win_conditions(game))
    /\ UNCHANGED <<driver, night_calls, game, pending_actions, loop_tasks>>

NextWin == CheckWin

SpecWin == InitWin /\ [][NextWin]_vars
-----------------------------------------------------------------------------
(* GameState.add_player on its own: players are added seat by seat, or under *)
(* an id that is already present                                             *)

MaxAddPlayers == 3

InitPlayers ==
    /\ driver = "players"
    /\ game = NewGameState
    /\ pending_actions = EmptyMap
    /\ loop_tasks = 0
    /\ night_calls = << >>
    /\ last_op = Op("GameState", TRUE)

\* add_player returns None and never raises
AddPlayer ==
    /\ driver = "players"
    /\ \E player_id \in Range(Prefix(Seats, MaxAddPlayers)), role \in Roles,
          is_human \in BOOLEAN, is_alive \in BOOLEAN :
          /\ \/ player_id \in DOMAIN game.players
             \/ player_id = Seats[Len(PlayerSeq(game)) + 1]
          /\ game' = add_player(game, player_id,
                                [NewPlayer(role, is_human) EXCEPT !.is_alive = is_alive])
          /\ last_op' = OpWith("add_player", TRUE, player_id)
    /\ UNCHANGED <<driver, night_calls, pending_actions, loop_tasks>>

NextPlayers == AddPlayer

SpecPlayers == InitPlayers /\ [][NextPlayers]_vars

-----------------------------------------------------------------------------
(* Properties *)

AliveOfRole(g, role) ==
    Cardinality({p \in DOMAIN g.players : g.players[p].is_alive /\ g.players[p].role = role})
AliveOfTeam(g, team) ==
    Cardinality({p \in DOMAIN g.players : g.players[p].is_alive /\ g.players[p].team = team})

WinCondition(g) ==
    AliveOfRole(g, MAFIA) = 0 \/ AliveOfRole(g, MAFIA) >= AliveOfTeam(g, TOWN_TEAM)

\* C1: in every reachable state, under either driver, the win condition
\* (no MAFIA alive, or at least as many MAFIA alive as TOWN_TEAM alive) holds
\* if and only if is_complete is true and winner is set.
C1_WinIffComplete ==
    WinCondition(game) <=> (game.is_complete /\ game.winner # None)

\* C2: check_win_conditions returns TOWN_TEAM when no MAFIA player is alive
\* (also when nobody is alive), otherwise MAFIA_TEAM when the alive MAFIA are
\* at least as many as the alive TOWN_TEAM players, otherwise no winner; only
\* alive players count.
C2_WinConditions ==
    last_op.op = "check_win_conditions" =>
        last_op.detail = (IF AliveOfRole(game, MAFIA) = 0 THEN TOWN_TEAM
                      ELSE IF AliveOfRole(game, MAFIA) >= AliveOfTeam(game, TOWN_TEAM)
                      THEN MAFIA_TEAM
                      ELSE None)

\* A game with as many MAFIA alive as TOWN_TEAM alive, and dead players of
\* both teams, has been given to MAFIA_TEAM
C2_Witness ==
    /\ last_op.op = "check_win_conditions"
    /\ last_op.detail = MAFIA_TEAM
    /\ AliveOfRole(game, MAFIA) = 1
    /\ AliveOfTeam(game, TOWN_TEAM) = 1
    /\ \E p, q \in DOMAIN game.players :
          /\ ~game.players[p].is_alive /\ game.players[p].role = MAFIA
          /\ ~game.players[q].is_alive /\ game.players[q].team = TOWN_TEAM

DeadPlayers(g) == {p \in DOMAIN g.players : ~g.players[p].is_alive}

\* C3: in every phase, an action of any type whose actor is not alive is
\* rejected by validate and by process_action, and submit_action does not
\* store it.
C3_DeadActorRejected ==
    \A p \in DeadPlayers(game) : \A a \in ActionsOf(p) :
        /\ ~validate(a, game).ok
        /\ ~process_action(game, a).ok
        /\ ~submit_action(game, pending_actions, GameId, a).ok
        /\ submit_action(game, pending_actions, GameId, a).pending = pending_actions

\* submit_action has just turned down a request of a player who is dead
C3_Witness ==
    /\ last_op.op = "submit_action"
    /\ ~last_op.ok
    /\ last_op.detail.player_id \in DeadPlayers(game)
    /\ game.current_phase = NIGHT

NotYourTurn(action_type) ==
    CASE action_type = SPEAK -> "Not your turn to speak"
      [] action_type = NOMINATE -> "Not your turn to nominate"
      [] action_type = PASS -> "Not your turn to pass"

\* C4: in DAY_DISCUSSION a SPEAK, NOMINATE or PASS succeeds only if its actor
\* is the player get_current_speaker() returns; from any other alive player
\* it is rejected, by validate and by process_action, with the "Not your
\* turn" reason of its type.
C4_OnlyCurrentSpeaker ==
    game.current_phase = DAY_DISCUSSION =>
        \A p \in AnyIds : \A a \in ActionsOf(p) :
            a.action_type \in {SPEAK, NOMINATE, PASS} =>
                /\ process_action(game, a).ok => p = get_current_speaker(game)
                /\ validate(a, game).ok => p = get_current_speaker(game)
                /\ (p \in Range(get_alive_players(game)) /\ p # get_current_speaker(game)) =>
                      /\ validate(a, game) = Invalid(NotYourTurn(a.action_type))
                      /\ ~process_action(game, a).ok
                      /\ process_action(game, a).msg = NotYourTurn(a.action_type)

\* submit_action has just turned down, as out of turn, a request of an alive
\* player who is not the current speaker
C4_Witness ==
    /\ game.current_phase = DAY_DISCUSSION
    /\ last_op.op = "submit_action"
    /\ ~last_op.ok
    /\ last_op.detail.player_id \in Range(get_alive_players(game))
    /\ last_op.detail.player_id # get_current_speaker(game)
    /\ last_op.detail.message = "Not your turn to speak"

\* C5: whenever process_action returns (False, reason), the GameState (phase,
\* day, speaker index, nominations, who_nominated, trial and voting state,
\* every player, winner, is_complete, event log) is as before the call.
C5_FailureChangesNothing ==
    \A a \in AllActions : ~process_action(game, a).ok => process_action(game, a).g = game

\* handle_discussion_phase has just had a process_action call return False
C5_Witness ==
    /\ last_op = Op("handle_discussion_phase", FALSE)
    /\ game.event_log # << >>

OfKind(night_actions, kind) ==
    SelectSeq(night_actions, LAMBDA a : a.night_action_type = kind)

SameLives(g1, g2) ==
    \A p \in DOMAIN g1.players : g1.players[p].is_alive = g2.players[p].is_alive

\* C6: a night resolved with exactly one KILL and one SAVE action.  The KILL
\* target is alive afterwards iff the SAVE names the same player; nobody
\* else's is_alive changes; when the two targets are equal nobody is
\* eliminated, no KILL event is logged and the game goes on to the
\* discussion phase.
C6_KillAndSave ==
    (driver = "cli" /\ game.current_phase = NIGHT) =>
        \A targets \in NightTargetChoices(game) :
            LET night_actions == CollectNightActions(game, targets)
                kills == OfKind(night_actions, KILL)
                saves == OfKind(night_actions, SAVE)
            IN  (Len(kills) = 1 /\ Len(saves) = 1) =>
                    LET kill_target_id == kills[1].target_id
                        save_target_id == saves[1].target_id
                        resolved == process_night_results(game, night_actions)
                        dawn == _run_night(game, targets)
                    IN  /\ game.players[kill_target_id].is_alive
                        /\ resolved.players[kill_target_id].is_alive
                              <=> (save_target_id = kill_target_id)
                        /\ \A p \in DOMAIN game.players \ {kill_target_id} :
                              resolved.players[p].is_alive = game.players[p].is_alive
                        /\ SameLives(dawn, resolved)
                        /\ (save_target_id = kill_target_id) =>
                              /\ SameLives(resolved, game)
                              /\ get_events_by_type(resolved, "KILL")
                                    = get_events_by_type(game, "KILL")
                              /\ dawn.current_phase = DAY_DISCUSSION
                              /\ ~game.is_complete => resolved.current_phase = DAY_DISCUSSION

\* _run_night has just resolved a night in which the only MAFIA player alive
\* and the DOCTOR named the same player: nobody died.
C6_Witness ==
    /\ last_op.op = "_run_night"
    /\ AliveOfRole(game, MAFIA) = 1
    /\ AliveOfRole(game, DOCTOR) = 1
    /\ Len(game.event_log) >= 2
    /\ game.event_log[Len(game.event_log)].type = "PHASE_CHANGE"
    /\ game.event_log[Len(game.event_log) - 1].type # "KILL"
    /\ game.current_phase = DAY_DISCUSSION

\* C7: the day counter is the same after a step from NIGHT to DAY_DISCUSSION,
\* and a step changes it only by adding exactly 1 while going back to NIGHT
\* from DAY_JUDGMENT or DAY_NOMINATION, under either driver.
C7_DayCounter ==
    [][/\ (game.current_phase = NIGHT /\ game'.current_phase = DAY_DISCUSSION)
              => game'.day = game.day
       /\ game'.day # game.day
              => /\ game'.day = game.day + 1
                 /\ game'.current_phase = NIGHT
                 /\ game.current_phase \in {DAY_JUDGMENT, DAY_NOMINATION}]_vars

\* trial_state.votes once _run_judgment has asked every voter
VotesCast(g, vote_guilty) ==
    CastVotes(g, JudgmentVoters(g), vote_guilty).trial_state[1].votes

\* C8: the verdict of _run_judgment.  Once every alive player but the
\* defendant has a vote in trial_state.votes: with more true than false
\* values the defendant is not alive afterwards and exactly one ELIMINATE
\* event for the defendant, carrying their role and team, is appended; with
\* no more true than false values (a tie or no votes included) the defendant
\* is alive afterwards and the event log is as before.
C8_Verdict ==
    (driver = "cli" /\ game.current_phase = DAY_JUDGMENT /\ game.trial_state # NoObject) =>
        \A vote_guilty \in [Range(get_alive_players(game)) -> BOOLEAN] :
            LET defendant == game.trial_state[1].defendant_id
                votes == VotesCast(game, vote_guilty)
                guilty_count == CountVotes(votes, TRUE)
                innocent_count == CountVotes(votes, FALSE)
                after == _run_judgment(game, vote_guilty)
            IN  /\ Range(get_alive_players(game)) \ {defendant} \subseteq DOMAIN votes
                /\ guilty_count > innocent_count =>
                      /\ ~after.players[defendant].is_alive
                      /\ Len(after.event_log) = Len(game.event_log) + 1
                      /\ SubSeq(after.event_log, 1, Len(game.event_log)) = game.event_log
                      /\ LET e == after.event_log[Len(after.event_log)]
                         IN  /\ e.type = "ELIMINATE"
                             /\ e.player_id = defendant
                             /\ e.data.role = game.players[defendant].role
                             /\ e.data.team = game.players[defendant].team
                /\ guilty_count <= innocent_count =>
                      /\ after.players[defendant].is_alive
                      /\ after.event_log = game.event_log

\* A step of _run_judgment with a trial in progress
JudgmentStep ==
    /\ driver = "cli"
    /\ game.current_phase = DAY_JUDGMENT
    /\ game.trial_state # NoObject
    /\ last_op'.op = "_run_judgment"

\* The judgment of this step executed the defendant and that decided the game
JudgmentEndsGame ==
    /\ Len(game'.event_log) = Len(game.event_log) + 1
    /\ game'.event_log[Len(game'.event_log)].type = "ELIMINATE"
    /\ WinCondition(game')

\* C9: a judgment that does not end the game (an execution that leaves no
\* winner, or an acquittal) leaves the game in NIGHT with day one more than
\* before, no trial_state, empty nominations and who_nominated, and
\* current_speaker_idx 0.
C9_JudgmentToNight ==
    [][(JudgmentStep /\ ~JudgmentEndsGame) =>
          /\ game'.current_phase = NIGHT
          /\ game'.day = game.day + 1
          /\ game'.trial_state = NoObject
          /\ game'.nominations = << >>
          /\ game'.who_nominated = EmptyMap
          /\ game'.current_speaker_idx = 0]_vars

\* _run_judgment has executed the defendant, nobody has won, night has fallen
C9_Witness ==
    /\ last_op = Op("_run_judgment", TRUE)
    /\ game.current_phase = NIGHT
    /\ ~game.is_complete
    /\ game.event_log # << >>
    /\ game.event_log[Len(game.event_log)].type = "ELIMINATE"
    /\ ~WinCondition(game)

\* A step of _run_nominations that changes the game
NominationStep ==
    /\ driver = "cli"
    /\ game.current_phase = DAY_NOMINATION
    /\ game' # game

EveryoneNominated(g) ==
    /\ get_alive_players(g) # << >>
    /\ DOMAIN g.who_nominated = Range(get_alive_players(g))
    /\ \A p \in DOMAIN g.who_nominated :
          /\ g.who_nominated[p] \in NomTargets(g.nominations)
          /\ \A n \in Range(g.nominations) :
                Cardinality({i \in DOMAIN n.nominators : n.nominators[i] = p})
                    = IF n.target = g.who_nominated[p] THEN 1 ELSE 0

\* C10: the nomination round is over exactly when every alive player has one
\* entry in who_nominated.  The game has then left DAY_NOMINATION for
\* DAY_DEFENSE with a fresh TrialState whose defendant is alive and has a
\* nomination count no target exceeds; and no state still in DAY_NOMINATION
\* has every alive player's nomination recorded.
C10_NominationRound ==
    [][/\ NominationStep =>
            /\ EveryoneNominated(game')
            /\ game'.current_phase = DAY_DEFENSE
            /\ game'.trial_state # NoObject
            /\ game'.trial_state[1] = TrialState(game'.trial_state[1].defendant_id)
            /\ LET defendant_id == game'.trial_state[1].defendant_id
               IN  /\ defendant_id \in NomTargets(game'.nominations)
                   /\ \A n \in Range(game'.nominations) :
                         Len(n.nominators) <= Len(NomList(game'.nominations, defendant_id))
                   /\ game'.players[defendant_id].is_alive
       /\ (driver = "cli" /\ game'.current_phase = DAY_NOMINATION)
             => ~EveryoneNominated(game')
       /\ (driver = "cli" /\ game.current_phase # DAY_DEFENSE
              /\ game'.current_phase = DAY_DEFENSE) => NominationStep]_vars

\* _run_nominations has sent to trial the most nominated of several targets
C10_Witness ==
    /\ last_op = Op("_run_nominations", TRUE)
    /\ game.current_phase = DAY_DEFENSE
    /\ EveryoneNominated(game)
    /\ Cardinality(NomTargets(game.nominations)) > Cardinality(MostNominated(game.nominations))
    /\ game.trial_state # NoObject
    /\ game.trial_state[1].defendant_id \in MostNominated(game.nominations)

\* A run of _run_nominations in which nobody's nomination is recorded
NoNominationStep ==
    /\ driver = "cli"
    /\ game.current_phase = DAY_NOMINATION
    /\ last_op' = Op("_run_nominations", TRUE)
    /\ game'.nominations = << >>
    /\ get_events_by_type(game', "NOMINATE") = get_events_by_type(game, "NOMINATE")

\* C11: when DAY_NOMINATION finishes with no nomination recorded the game is
\* in NIGHT with day one more than before, there was no TrialState before
\* the run and there is none after it: DAY_DEFENSE and DAY_JUDGMENT are not
\* entered.
C11_NoNominations ==
    [][NoNominationStep =>
          /\ game'.current_phase = NIGHT
          /\ game'.day = game.day + 1
          /\ game.trial_state = NoObject
          /\ game'.trial_state = NoObject
          /\ game'.who_nominated = EmptyMap]_vars

\* _run_nominations found nobody to ask and night has fallen
C11_Witness ==
    /\ last_op = Op("_run_nominations", TRUE)
    /\ game.current_phase = NIGHT
    /\ get_alive_players(game) = << >>
    /\ get_events_by_type(game, "NOMINATE") = << >>
    /\ game.day = 3

\* C12: in every reachable state, under either driver, a complete game is in
\* GAME_END.
C12_CompleteIsGameEnd ==
    game.is_complete => game.current_phase = GAME_END

\* C13: once the game is complete every action of every type from every
\* player is rejected by validate, by process_action and by submit_action,
\* and no step changes the game.
C13_NothingAfterTheEnd ==
    [][game.is_complete =>
          /\ \A a \in AllActions :
                /\ ~validate(a, game).ok
                /\ ~process_action(game, a).ok
                /\ ~submit_action(game, pending_actions, GameId, a).ok
          /\ game' = game]_vars

\* The edges of the transition table other than those into GAME_END
Edges ==
    {<<NIGHT, DAY_DISCUSSION>>, <<DAY_DISCUSSION, DAY_NOMINATION>>,
     <<DAY_NOMINATION, DAY_DEFENSE>>, <<DAY_NOMINATION, NIGHT>>,
     <<DAY_DEFENSE, DAY_JUDGMENT>>, <<DAY_JUDGMENT, NIGHT>>}

\* C14: every change of current_phase is an edge of the transition table or
\* leads into GAME_END, and GAME_END is never left.
C14_TransitionTable ==
    [][game'.current_phase # game.current_phase =>
          /\ \/ <<game.current_phase, game'.current_phase>> \in Edges
             \/ game'.current_phase = GAME_END
          /\ game.current_phase # GAME_END]_vars

\* C15: a game that has just been created, through the CLI or through the
\* API, is in NIGHT on day 1, so NIGHT is the first phase that is run.
C15_StartsAtNight ==
    last_op.op = "create_game" => (game.current_phase = NIGHT /\ game.day = 1)

\* C16: add_player under a player_id that is already present reports a
\* failure and leaves every player entry and the player order as they were.
C16_DuplicatePlayer ==
    [][(last_op'.op = "add_player" /\ last_op'.detail \in DOMAIN game.players) =>
          /\ ~last_op'.ok
          /\ game'.players = game.players
          /\ PlayerSeq(game') = PlayerSeq(game)]_vars

\* What a submit_action request did to the mailbox, seen from the answer it
\* gave for player p
SubmitStored(p) ==
    /\ HasPending(pending_actions', p)
    /\ pending_actions'[p][1].player_id = p
    /\ validate(pending_actions'[p][1], game).ok
    /\ DOMAIN pending_actions' = DOMAIN pending_actions \cup {p}
    /\ \A q \in DOMAIN pending_actions \ {p} : pending_actions'[q] = pending_actions[q]

\* C17: submit_action validates before it stores.  A request that is answered
\* (False, reason), for an unknown game id or an action validate rejects,
\* leaves the mailbox as it was; a request answered (True, None) has stored
\* an action that validates in the current game state in the slot of its
\* player, whatever the slot held, and has touched no other slot.  For every
\* request the answer is (True, None) exactly when the game id is known and
\* the action validates.
C17_ValidateBeforeStore ==
    /\ [](\A game_id \in {GameId, UnknownGameId} : \A a \in AllActions :
            LET r == submit_action(game, pending_actions, game_id, a)
            IN  /\ r.ok <=> (game_id = GameId /\ validate(a, game).ok)
                /\ ~r.ok => (r.pending = pending_actions /\ r.msg # None)
                /\ r.ok => r.pending = MapPut(pending_actions, a.player_id, Some(a)))
    /\ [][last_op'.op = "submit_action" =>
             /\ game' = game
             /\ IF last_op'.ok
                THEN last_op'.detail.message = None /\ SubmitStored(last_op'.detail.player_id)
                ELSE last_op'.detail.message # None /\ pending_actions' = pending_actions]_vars

\* submit_action has just stored an action in a slot that already held one
C17_Witness ==
    /\ last_op.op = "submit_action"
    /\ last_op.ok
    /\ last_op.detail.replaced
    /\ HasPending(pending_actions, last_op.detail.player_id)

\* submit_action has just turned down a request for a game id it does not hold
C17_WitnessUnknownGame ==
    /\ last_op.op = "submit_action"
    /\ ~last_op.ok
    /\ last_op.detail.message = "Game not found"



\* A run_game_loop task is running its while loop
LoopRunning == ApiDriven /\ loop_tasks > 0 /\ game.is_started /\ ~game.is_complete

\* Whatever its agents answer, handle_voting_phase leaves the game and the
\* mailbox as they are: every further iteration of the loop does the same
VotingAtRest ==
    /\ game.current_phase = DAY_VOTING
    /\ \A silent \in SilentSets(get_alive_players(game)) :
          \A votes \in BallotChoices(game) :
             LET out == handle_voting_phase(game, silent, votes)
             IN  out.g = game /\ ~out.raised

\* A handler of the loop has just emptied the slot of player p
SlotCleared(p) ==
    /\ last_op'.op \in {"handle_discussion_phase", "handle_voting_phase", "handle_night_phase"}
    /\ HasPending(pending_actions, p)
    /\ ~HasPending(pending_actions', p)

\* C18: an action accepted by submit_action is read by the loop, applied
\* once and its slot cleared.  The loop never comes to rest with an accepted
\* action still in its slot, and a handler that empties a slot has applied
\* the action it held: the game has changed and the slot stays empty until
\* the next submission.
C18_ReadAppliedOnce ==
    /\ [](\A p \in DOMAIN pending_actions :
            ~(LoopRunning /\ HasPending(pending_actions, p) /\ VotingAtRest))
    /\ [][\A p \in DOMAIN pending_actions : SlotCleared(p) => game' # game]_vars



\* C19: at most one run_game_loop task exists for the game at any time, and
\* start_game adds a task only when none has been scheduled or is running.
C19_SingleLoop ==
    /\ [](loop_tasks <= 1)
    /\ [][last_op'.op = "start_game" /\ last_op'.ok => loop_tasks = 0]_vars



-----------------------------------------------------------------------------
(* game/state.py: the projection served by GET /games/{id} *)

\* Player.to_dict: role and team are keys of the dict only when the role is
\* not hidden or the player is human
Player_to_dict(g, p, hide_role) ==
    LET self == g.players[p]
        data == [player_id |-> p, is_alive |-> self.is_alive, is_human |-> self.is_human]
    IN  IF ~hide_role \/ self.is_human
        THEN [player_id |-> p, is_alive |-> self.is_alive, is_human |-> self.is_human,
              role |-> self.role, team |-> self.team]
        ELSE data

\* GameState.to_dict; player_id = None: the request names no viewer.  The
\* day_summary entry is left out: the model keeps no day summaries.
to_dict(g, player_id) ==
    LET hide_role == IF player_id # None
                     THEN player_id \notin DOMAIN g.players \/ ~g.players[player_id].is_human
                     ELSE FALSE
        seats == PlayerSeq(g)
    IN  [game_id |-> GameId,
         phase |-> g.current_phase,
         day |-> g.day,
         players |-> [i \in DOMAIN seats |-> Player_to_dict(g, seats[i], hide_role)],
         current_speaker_id |-> get_current_speaker(g),
         nominations |-> SelectSeq(g.nominations,
                            LAMBDA n : n.target \in Range(get_alive_player_ids(g))),
         voting_state |-> g.voting_state,
         winner |-> g.winner,
         is_complete |-> g.is_complete]

\* The viewers a request may name: a player, an id of no player, or none
Viewers == AnyIds \cup {None}

\* The projection for `viewer` has role and team among the keys of player p
RoleShown(g, viewer, p) ==
    \E i \in DOMAIN to_dict(g, viewer).players :
       /\ to_dict(g, viewer).players[i].player_id = p
       /\ "role" \in DOMAIN to_dict(g, viewer).players[i]
       /\ "team" \in DOMAIN to_dict(g, viewer).players[i]

\* The game with the role of player p replaced
WithRole(g, p, role) ==
    [g EXCEPT !.players[p].role = role, !.players[p].team = get_team_for_role(role)]

\* C20: in the projection to_dict(viewer) served by the API an alive player's role and team
\* are present only for the viewer's own entry when the viewer is human, a
\* dead player's role and team are always present, and replacing the role of
\* an alive player other than the viewer leaves the projection unchanged.
C20_RolesHidden ==
    ApiDriven => \A viewer \in Viewers : \A p \in DOMAIN game.players :
       /\ game.players[p].is_alive =>
             (RoleShown(game, viewer, p) <=> (p = viewer /\ game.players[p].is_human))
       /\ ~game.players[p].is_alive => RoleShown(game, viewer, p)
       /\ (game.players[p].is_alive /\ p # viewer) =>
             \A role \in Roles : to_dict(WithRole(game, p, role), viewer) = to_dict(game, viewer)

-----------------------------------------------------------------------------
(* The event log *)

IsPrefix(s, t) == Len(s) <= Len(t) /\ SubSeq(t, 1, Len(s)) = s

\* The k-th smallest member of a set of positions
KthPosition(pos, k) == CHOOSE i \in pos : Cardinality({j \in pos : j < i}) = k - 1

\* `read` holds exactly the events of `log` at the positions `pos`, in the
\* order of the log
ReadsInOrder(read, log, pos) ==
    /\ Len(read) = Cardinality(pos)
    /\ \A k \in DOMAIN read : read[k] = log[KthPosition(pos, k)]

\* C21: the event log is append-only.  Every step leaves the events it found
\* as a prefix of the log, so the log of every earlier state is a prefix of
\* the log of every later one, and get_events_by_type and get_events_by_day
\* return the events of the type or of the day in the order of the log.
C21_AppendOnly ==
    /\ [](/\ \A type \in {e.type : e \in Range(game.event_log)} :
               ReadsInOrder(get_events_by_type(game, type), game.event_log,
                            {i \in DOMAIN game.event_log : game.event_log[i].type = type})
          /\ \A day \in {e.day : e \in Range(game.event_log)} :
               ReadsInOrder(get_events_by_day(game, day), game.event_log,
                            {i \in DOMAIN game.event_log : game.event_log[i].day = day}))
    /\ [][IsPrefix(game.event_log, game'.event_log)]_vars

\* The log holds events of two days and of three types, the last one appended
\* after a nomination
C21_Witness ==
    /\ Len(game.event_log) >= 4
    /\ Cardinality({e.type : e \in Range(game.event_log)}) >= 3
    /\ Cardinality({e.day : e \in Range(game.event_log)}) >= 2
    /\ \E i \in DOMAIN game.event_log :
          game.event_log[i].type = "NOMINATE" /\ i < Len(game.event_log)

\* C22: the phase engine applies every validated action.  In every state, an
\* action that validate accepts is answered with success by process_action
\* and, unless it is a pass outside the discussion, leaves a changed game.
C22_ValidatedApplied ==
    \A a \in AllActions :
       validate(a, game).ok =>
          /\ process_action(game, a).ok
          /\ (a.action_type # PASS \/ game.current_phase = DAY_DISCUSSION)
                => process_action(game, a).g # game

\* What the phase and the state must be for validate to accept action a
LegalFor(a, g) ==
    CASE a.action_type = SPEAK ->
            /\ g.current_phase \in {DAY_DISCUSSION, DAY_DEFENSE}
            /\ strip(a.message) # ""
      [] a.action_type = NOMINATE ->
            /\ g.current_phase \in {DAY_DISCUSSION, DAY_NOMINATION}
            /\ a.target_id \in DOMAIN g.players
            /\ g.players[a.target_id].is_alive
            /\ a.target_id # a.player_id
      [] a.action_type = PASS ->
            g.current_phase \in {DAY_DISCUSSION, DAY_NOMINATION, DAY_JUDGMENT}
      [] a.action_type = JUDGMENT_VOTE ->
            g.current_phase = DAY_JUDGMENT /\ g.trial_state # NoObject
      [] a.action_type = VOTE ->
            g.current_phase = DAY_VOTING /\ g.voting_state # NoObject
      [] a.action_type = NIGHT_ACTION ->
            g.current_phase = NIGHT

\* C23: validate accepts an action only in a phase of the action type's legal
\* set and with the content the type asks for (a message that is not empty
\* after trimming, a target that exists, is alive and is not the actor, an
\* active trial or ballot); everywhere else the action is rejected with a
\* reason.
C23_LegalPhases ==
    \A a \in AllActions :
       /\ validate(a, game).ok => LegalFor(a, game)
       /\ ~LegalFor(a, game) => (~validate(a, game).ok /\ validate(a, game).error # None)

\* The nomination phase: a nomination of an alive player validates, a speech
\* with content and a night action of the same actor are rejected
C23_Witness ==
    /\ game.current_phase = DAY_NOMINATION
    /\ \E p \in DOMAIN game.players :
          /\ \E t \in DOMAIN game.players : validate(NominateAction(p, t), game).ok
          /\ validate(PassAction(p), game).ok
          /\ ~validate(SpeakAction(p, Msg), game).ok
          /\ \A k \in NightActionTypes, t \in DOMAIN game.players :
                ~validate(NightAction(p, k, t), game).ok

\* The role a night action kind belongs to
RoleOfKind(kind) == CASE kind = KILL -> MAFIA
                      [] kind = SAVE -> DOCTOR
                      [] kind = INVESTIGATE -> DETECTIVE

\* Every action of night_actions has the kind of its actor's role
KindsMatchRoles(g, night_actions) ==
    \A i \in DOMAIN night_actions :
       /\ night_actions[i].action_type = NIGHT_ACTION
       /\ g.players[night_actions[i].player_id].role
             = RoleOfKind(night_actions[i].night_action_type)

\* The night actions the driver of the game collects for process_night_results,
\* for every answer of the agents
CollectedNightActions ==
    IF driver = "api"
    THEN {NightTurns(game, pending_actions, NightOrder(game), targets, << >>).night_actions :
             targets \in [Range(NightOrder(game)) ->
                             Range(get_alive_players(game)) \cup {None}]}
    ELSE {CollectNightActions(game, targets) : targets \in NightTargetChoices(game)}

\* C24: a NIGHT_ACTION validates only if actor and target exist and are
\* alive, the actor's role is the role of the kind (KILL: MAFIA, SAVE: DOCTOR,
\* INVESTIGATE: DETECTIVE) and the actor does not target itself unless the
\* kind is SAVE; every night action collected for resolution has the kind of
\* its actor's role.
C24_NightActionRoles ==
    /\ \A a \in AllActions :
          (a.action_type = NIGHT_ACTION /\ validate(a, game).ok) =>
             /\ game.current_phase = NIGHT
             /\ a.player_id \in DOMAIN game.players
             /\ a.target_id \in DOMAIN game.players
             /\ game.players[a.player_id].is_alive
             /\ game.players[a.target_id].is_alive
             /\ game.players[a.player_id].role = RoleOfKind(a.night_action_type)
             /\ a.player_id = a.target_id => a.night_action_type = SAVE
    /\ game.current_phase = NIGHT =>
          \A night_actions \in CollectedNightActions : KindsMatchRoles(game, night_actions)

\* A night in which the doctor may protect itself, no one else may target
\* itself, and actions of all three kinds are collected
C24_Witness ==
    /\ game.current_phase = NIGHT
    /\ \E d \in DOMAIN game.players : validate(NightAction(d, SAVE, d), game).ok
    /\ \E m \in DOMAIN game.players :
          /\ ~validate(NightAction(m, KILL, m), game).ok
          /\ ~validate(NightAction(m, SAVE, m), game).ok
          /\ \E t \in DOMAIN game.players : validate(NightAction(m, KILL, t), game).ok
    /\ \E night_actions \in CollectedNightActions :
          {night_actions[i].night_action_type : i \in DOMAIN night_actions} = NightActionTypes
    /\ Len(game.event_log) > 0

\* The two nominees of the ballot in progress
Nominees(g) == {g.voting_state[1].nominee1_id, g.voting_state[1].nominee2_id}

\* C25: in the legacy ballot the two nominees are distinct players, alive
\* while the ballot is open; every recorded vote is for one of them and every
\* voter is an alive player; a second vote of a voter and a vote for a
\* player who is not a nominee are rejected by validate, by process_vote and
\* by process_action, and the game with its ballot is left as it was.
C25_LegacyBallot ==
    game.voting_state # NoObject =>
       /\ game.voting_state[1].nominee1_id # game.voting_state[1].nominee2_id
       /\ Nominees(game) \subseteq Range(get_alive_players(game))
       /\ \A voter \in DOMAIN game.voting_state[1].votes :
             /\ game.voting_state[1].votes[voter] \in Nominees(game)
             /\ voter \in Range(get_alive_players(game))
       /\ \A voter \in AnyIds, nominee_id \in AnyIds :
             (voter \in DOMAIN game.voting_state[1].votes \/ nominee_id \notin Nominees(game)) =>
                /\ ~validate(VoteAction(voter, nominee_id), game).ok
                /\ process_vote(game, voter, nominee_id).error # None
                /\ process_vote(game, voter, nominee_id).g = game
                /\ ~process_action(game, VoteAction(voter, nominee_id)).ok
                /\ process_action(game, VoteAction(voter, nominee_id)).g = game

\* A ballot with votes recorded: a request to vote for a player who is not a
\* nominee has just been turned down, and a voter who votes again for a
\* nominee is told so
C25_Witness ==
    /\ game.voting_state # NoObject
    /\ Cardinality(DOMAIN game.voting_state[1].votes) >= 2
    /\ last_op.op = "submit_action"
    /\ ~last_op.ok
    /\ last_op.detail.message = "Can only vote for one of the two nominees"
    /\ \E voter \in DOMAIN game.voting_state[1].votes :
          /\ validate(VoteAction(voter, game.voting_state[1].nominee1_id), game).error
                = "Already voted"
          /\ process_vote(game, voter, game.voting_state[1].nominee1_id).error
                = "Player has already voted"

\* C26: while a trial is active the keys of trial_state.votes are alive
\* players other than the defendant, and a recorded verdict is never replaced;
\* a judgment vote of the defendant, a second vote of a voter and a verdict
\* that is not GUILTY or INNOCENT in any letter case are rejected by validate
\* and by process_action, which leave the game and its votes as they were.
C26_TrialVotes ==
    /\ [](game.trial_state # NoObject =>
            /\ \A voter \in DOMAIN game.trial_state[1].votes :
                  /\ voter # game.trial_state[1].defendant_id
                  /\ voter \in Range(get_alive_players(game))
                  /\ game.trial_state[1].votes[voter] \in BOOLEAN
            /\ \A a \in AllActions :
                  (/\ a.action_type = JUDGMENT_VOTE
                   /\ \/ a.player_id = game.trial_state[1].defendant_id
                      \/ a.player_id \in DOMAIN game.trial_state[1].votes
                      \/ upper(a.vote) \notin {"GUILTY", "INNOCENT"}) =>
                     /\ ~validate(a, game).ok
                     /\ ~process_action(game, a).ok
                     /\ process_action(game, a).g = game)
    /\ [][(game.trial_state # NoObject /\ game'.trial_state # NoObject) =>
             /\ game'.trial_state[1].defendant_id = game.trial_state[1].defendant_id
             /\ \A voter \in DOMAIN game.trial_state[1].votes :
                   /\ voter \in DOMAIN game'.trial_state[1].votes
                   /\ game'.trial_state[1].votes[voter] = game.trial_state[1].votes[voter]]_vars

\* _run_judgment has recorded the verdicts of the trial in progress: a voter
\* who votes again and the defendant are turned down
C26_Witness ==
    /\ last_op.op = "_run_judgment"
    /\ game.trial_state # NoObject
    /\ Cardinality(DOMAIN game.trial_state[1].votes) >= 2
    /\ \E voter \in DOMAIN game.trial_state[1].votes :
          validate(JudgmentVoteAction(voter, "guilty"), game).error = "Already voted"
    /\ ~validate(JudgmentVoteAction(game.trial_state[1].defendant_id, "GUILTY"), game).ok

NoDuplicates(s) == \A i, j \in DOMAIN s : s[i] = s[j] => i = j

\* The discussion of g once the players before p have passed their turns:
\* the speaker index moves on to the next turn of the alive player p
TurnOf(g, p) ==
    LET alive_players == get_alive_players(g)
        passes == CHOOSE k \in 0..(Len(alive_players) - 1) :
                     alive_players[((g.current_speaker_idx + k) % Len(alive_players)) + 1] = p
    IN  [g EXCEPT !.current_speaker_idx = @ + passes]

\* Player p is recorded as a nominator of target t
HasNominated(g, p, t) ==
    \E i \in DOMAIN g.nominations :
       g.nominations[i].target = t /\ p \in Range(g.nominations[i].nominators)

\* C27: no nominator list of nominations holds a player twice, and to nominate
\* again the same target is accepted and leaves nominations exactly as it
\* was: add_nomination is idempotent, and so is the nomination the phase
\* engine applies when the turn of the nominator comes round again.
C27_NominationIdempotent ==
    /\ \A i \in DOMAIN game.nominations : NoDuplicates(game.nominations[i].nominators)
    /\ NoDuplicates([i \in DOMAIN game.nominations |-> game.nominations[i].target])
    /\ \A p \in DOMAIN game.players, t \in DOMAIN game.players :
          LET once == add_nomination(game, p, t)
          IN  /\ add_nomination(once, p, t) = once
              /\ \A i \in DOMAIN once.nominations : NoDuplicates(once.nominations[i].nominators)
              /\ HasNominated(game, p, t) => once = game
    /\ \A p \in DOMAIN game.players, t \in DOMAIN game.players :
          (/\ game.current_phase = DAY_DISCUSSION
           /\ HasNominated(game, p, t)
           /\ game.players[p].is_alive /\ game.players[t].is_alive) =>
             LET again == process_action(TurnOf(game, p), NominateAction(p, t))
             IN  /\ validate(NominateAction(p, t), TurnOf(game, p)).ok
                 /\ again.ok
                 /\ again.g.nominations = game.nominations

\* A discussion in which a player who has nominated is alive with its target,
\* so that the nomination can be made again
C27_Witness ==
    /\ game.current_phase = DAY_DISCUSSION
    /\ last_op.op = "handle_discussion_phase"
    /\ \E p \in DOMAIN game.players, t \in DOMAIN game.players :
          /\ HasNominated(game, p, t)
          /\ game.players[p].is_alive /\ game.players[t].is_alive
          /\ process_action(TurnOf(game, p), NominateAction(p, t)).ok

\* The targets in whose nominator list player p appears
TargetsOf(g, p) == {t \in NomTargets(g.nominations) : HasNominated(g, p, t)}

\* C28: within a nomination round each player holds at most one nomination:
\* a player is in the nominator list of at most one target, and who_nominated
\* has an entry for exactly the players who nominated, naming that target.
C28_OneNominationEach ==
    \A p \in DOMAIN game.players :
       /\ Cardinality(TargetsOf(game, p)) <= 1
       /\ p \in DOMAIN game.who_nominated <=> TargetsOf(game, p) # {}
       /\ p \in DOMAIN game.who_nominated => TargetsOf(game, p) = {game.who_nominated[p]}

\* A step that resets the phase: into NIGHT, or into the DAY_DISCUSSION of a
\* new day
PhaseReset ==
    \/ game'.current_phase = NIGHT /\ game.current_phase # NIGHT
    \/ game'.current_phase = DAY_DISCUSSION /\ game.current_phase # DAY_DISCUSSION

C29_WitnessTrial ==
    /\ last_op.op = "_run_judgment"
    /\ game.current_phase = NIGHT
    /\ game.trial_state = NoObject
    /\ game.voting_state = NoObject

\* A step in which the discussion ends
DiscussionEnds == game.current_phase = DAY_DISCUSSION /\ game'.current_phase # DAY_DISCUSSION

\* C30: the discussion ends by beginning DAY_NOMINATION, after the configured
\* rounds of turns of the alive players (at most rounds x alive speeches, no
\* more than `rounds` of any player, all of alive players), and on that
\* transition current_speaker_idx is 0 and nominations and who_nominated are
\* empty.
C30_DiscussionEnds ==
    [][DiscussionEnds =>
          LET spoken == SubSeq(game'.event_log, Len(game.event_log) + 1, Len(game'.event_log))
          IN  /\ game'.current_phase = DAY_NOMINATION
              /\ game'.current_speaker_idx = 0
              /\ game'.nominations = << >>
              /\ game'.who_nominated = EmptyMap
              /\ \A i \in DOMAIN spoken :
                    spoken[i].type = "SPEAK" /\ spoken[i].phase = DAY_DISCUSSION
              /\ \A p \in DOMAIN game.players :
                    Cardinality({i \in DOMAIN spoken : spoken[i].player_id = p})
                       <= (IF game.players[p].is_alive THEN max_rounds_per_player ELSE 0)]_vars

-----------------------------------------------------------------------------
(* The defense sequence *)

DefenseContexts == {"opening_defense", "town_response", "closing_defense"}

\* The speeches evs of one defense of g's defendant come in the fixed order
DefenseOrder(evs, g) ==
    LET defendant == g.trial_state[1].defendant_id
    IN  /\ \A i \in DOMAIN evs :
              /\ evs[i].type = "SPEAK"
              /\ evs[i].phase = DAY_DEFENSE
              /\ evs[i].day = g.day
              /\ evs[i].data.context \in DefenseContexts
              /\ evs[i].data.context = "opening_defense"
                    => i = 1 /\ evs[i].player_id = defendant
              /\ evs[i].data.context = "closing_defense"
                    => i = Len(evs) /\ evs[i].player_id = defendant
              /\ evs[i].data.context = "town_response"
                    => /\ evs[i].player_id # defendant
                       /\ evs[i].player_id \in Range(get_alive_players(g))
        /\ \A i, j \in DOMAIN evs :
              i < j /\ evs[i].data.context = "town_response"
                    /\ evs[j].data.context = "town_response"
                 => evs[i].player_id # evs[j].player_id

DefenseEnds == game.current_phase = DAY_DEFENSE /\ game'.current_phase = DAY_JUDGMENT

C31_WitnessSilentDefendant ==
    /\ last_op.op = "_run_defense"
    /\ game.current_phase = DAY_JUDGMENT
    /\ game.event_log # << >>
    /\ game.event_log[Len(game.event_log)].phase = DAY_DEFENSE
    /\ \A i \in DOMAIN game.event_log :
          game.event_log[i].phase = DAY_DEFENSE /\ game.event_log[i].day = game.day
             => game.event_log[i].data.context = "town_response"

-----------------------------------------------------------------------------
(* The end of the legacy ballot *)

\* A step that completes the ballot: the VotingState is cleared
BallotCompletes == game.voting_state # NoObject /\ game'.voting_state = NoObject

\* C32: a step that completes the legacy ballot leaves the voting phase, for
\* GAME_END when a winner results and for NIGHT otherwise, a tie included; the
\* loop is never in the voting phase of a game in progress with no VotingState.
C32_BallotLeavesVoting ==
    /\ [](ApiDriven /\ game.current_phase = DAY_VOTING /\ ~game.is_complete
             => game.voting_state # NoObject)
    /\ [][BallotCompletes =>
            /\ game'.current_phase \in {GAME_END, NIGHT}
            /\ game'.current_phase = GAME_END <=> check_win_conditions(game') # None]_vars

-----------------------------------------------------------------------------
(* The round-robin of the discussion *)

\* The alive player `k` turns after the current speaker, in seating order
SpeakerAfter(g, k) ==
    LET alive_players == SelectSeq(PlayerSeq(g), LAMBDA p : g.players[p].is_alive)
    IN  alive_players[((g.current_speaker_idx + k) % Len(alive_players)) + 1]

\* The discussion of g after the speakers of the next k turns have passed
RECURSIVE AfterPasses(_, _)
AfterPasses(g, k) ==
    IF k = 0 THEN g
    ELSE AfterPasses(process_action(g, PassAction(get_current_speaker(g))).g, k - 1)

\* The game with every player dead, as the debug command `kill` can leave it
NobodyAlive(g) ==
    [g EXCEPT !.players = [p \in DOMAIN g.players |->
                              [g.players[p] EXCEPT !.is_alive = FALSE]]]

\* C33: get_current_speaker is the alive player at position current_speaker_idx
\* mod the number of alive players, in insertion order, and none when nobody
\* is alive.  In DAY_DISCUSSION an accepted SPEAK, PASS or NOMINATE comes from
\* the current speaker and, unless it opens the ballot, adds exactly 1 to the
\* index and makes the next alive player in seating order the speaker; over n
\* accepted actions each of the n alive players is the speaker once.
C33_RoundRobin ==
    LET n == Len(get_alive_players(game))
    IN  /\ get_current_speaker(NobodyAlive(game)) = None
        /\ n > 0 => get_current_speaker(game) = SpeakerAfter(game, 0)
        /\ game.current_phase = DAY_DISCUSSION /\ n > 0 =>
             /\ \A a \in AllActions :
                   LET r == process_action(game, a)
                   IN  r.ok /\ a.action_type \in {SPEAK, PASS, NOMINATE}
                            /\ r.g.voting_state = NoObject
                          => /\ a.player_id = get_current_speaker(game)
                             /\ r.g.current_speaker_idx = game.current_speaker_idx + 1
                             /\ r.g.current_phase = DAY_DISCUSSION
                             /\ get_current_speaker(r.g) = SpeakerAfter(game, 1)
             /\ \A k \in 0..(2 * n) :
                   /\ AfterPasses(game, k).current_speaker_idx
                         = game.current_speaker_idx + k
                   /\ get_current_speaker(AfterPasses(game, k)) = SpeakerAfter(game, k)
                   /\ k >= n => get_current_speaker(AfterPasses(game, k))
                                   = get_current_speaker(AfterPasses(game, k - n))
             /\ {get_current_speaker(AfterPasses(game, k)) : k \in 0..(n - 1)}
                   = Range(get_alive_players(game))

\* Two discussion turns were accepted in a row through the loop, and the
\* third speaker is up; a full round later it is that player's turn again
C33_Witness ==
    /\ game.current_phase = DAY_DISCUSSION
    /\ last_op.op = "handle_discussion_phase" /\ last_op.ok
    /\ game.current_speaker_idx = 2
    /\ get_current_speaker(game) = Seats[3]
    /\ get_current_speaker(AfterPasses(game, Len(get_alive_players(game)))) = Seats[3]

\* A discussion begins with the player of the first seat dead: the first
\* speaker is the next alive player, and the round wraps around past the dead
C33_WitnessDeadSeat ==
    /\ game.current_phase = DAY_DISCUSSION
    /\ ~game.players[Seats[1]].is_alive
    /\ game.current_speaker_idx = 0
    /\ get_current_speaker(game) # Seats[1]
    /\ get_current_speaker(AfterPasses(game, Len(get_alive_players(game))))
          = get_current_speaker(game)

-----------------------------------------------------------------------------
(* Invalid answers of an agent *)

\* A run of the night of either driver
NightRuns == last_op'.op \in {"_run_night", "handle_night_phase"}

\* C34: whatever the agent answers, get_action returns an action that passes
\* validate in the current state or the PASS of that player, a rejected
\* action changes nothing, and each run of a phase still makes progress on a
\* rejected answer: a run of the night, where PASS is not legal, applies a legal
\* night action in its place and so leaves NIGHT or ends the game.
C34_FallbackProgress ==
    /\ [](\A a \in AllActions :
             /\ validate(get_action(game, a), game).ok
                   \/ get_action(game, a) = PassAction(a.player_id)
             /\ ~validate(a, game).ok => process_action(game, a).g = game)
    /\ [][NightRuns /\ game.current_phase = NIGHT
             => game'.current_phase # NIGHT \/ game'.is_complete]_vars

-----------------------------------------------------------------------------
(* Night actions at the moment of resolution *)

\* The positions of the events a step appends to the log
AppendedEvents == (Len(game.event_log) + 1)..Len(game'.event_log)

\* C35: every night action used in a night resolution passes the NIGHT_ACTION
\* validation in the state it is resolved in, whether the call collected it
\* in one go or held it across an await, and a KILL event is only ever
\* appended for a target that was alive before the step.
C35_ResolvedActionsValid ==
    /\ [](game.current_phase = NIGHT =>
             \A night_actions \in CollectedNightActions :
                \A i \in DOMAIN night_actions : validate(night_actions[i], game).ok)
    /\ [][last_op'.op = "handle_night_phase (resumed)" =>
             \A i \in DOMAIN last_op'.detail : validate(last_op'.detail[i], game).ok]_vars
    /\ [][\A i \in AppendedEvents :
             game'.event_log[i].type = "KILL"
                => game.players[game'.event_log[i].target_id].is_alive]_vars

-----------------------------------------------------------------------------
(* One night, one kill *)

Reverse(s) == [i \in DOMAIN s |-> s[Len(s) + 1 - i]]

\* The dicts of night actions handed to process_night_results: what the
\* driver collects, in its insertion order and in the opposite one
NightActionDicts ==
    CollectedNightActions \cup {Reverse(night_actions) : night_actions \in CollectedNightActions}

\* The target of the action of `kind` that comes last in night_actions
LastOfKind(night_actions, kind) ==
    LET at == {i \in DOMAIN night_actions : night_actions[i].night_action_type = kind}
    IN  IF at = {} THEN None
        ELSE night_actions[CHOOSE i \in at : \A j \in at : j <= i].target_id

-----------------------------------------------------------------------------
(* What an investigation reveals *)

\* An INVESTIGATE action has just been applied
Investigated ==
    /\ last_op'.op = "night" /\ last_op'.ok
    /\ last_op'.detail.night_action_type = INVESTIGATE

\* C37: an applied INVESTIGATE leaves nothing in the event feed or in the
\* rest of the shared game state that depends on the target's role: the same
\* action applied to the game with only the target's role replaced leaves the
\* same events, and the same game apart from that role.
C37_InvestigationPrivate ==
    [][Investigated =>
         \A role \in Roles :
            LET a == last_op'.detail
                other == process_action(WithRole(game, a.target_id, role), a)
            IN  other.ok =>
                   /\ get_events(other.g) = get_events(game')
                   /\ WithRole(other.g, a.target_id, game.players[a.target_id].role)
                         = game']_vars

-----------------------------------------------------------------------------
(* Life, death, role and team *)

\* The handlers in which a night kill, a trial execution or a ballot
\* elimination takes place
Eliminations ==
    {"_run_night", "handle_night_phase", "handle_night_phase (resumed)",
     "_run_judgment", "handle_voting_phase"}

\* The step appends the event of the death of p: a KILL aimed at p, or the
\* ELIMINATE of p
DeathLogged(p) ==
    \E i \in AppendedEvents :
       \/ /\ game'.event_log[i].type = "KILL"
          /\ game'.event_log[i].target_id = p
       \/ /\ game'.event_log[i].type = "ELIMINATE"
          /\ game'.event_log[i].player_id = p

-----------------------------------------------------------------------------
(* The outcome of a completed game *)

\* C39: once winner is set and is_complete is true, no later operation
\* changes winner, resets is_complete or changes any player's is_alive.
C39_OutcomeStable ==
    [][(game.is_complete /\ game.winner # None)
          => /\ game'.winner = game.winner
             /\ game'.is_complete
             /\ \A p \in DOMAIN game.players :
                   game'.players[p].is_alive = game.players[p].is_alive]_vars

-----------------------------------------------------------------------------
(* The trial behind the defense and judgment phases *)

\* C40: whenever current_phase is DAY_DEFENSE or DAY_JUDGMENT, a TrialState
\* is active and its defendant is an alive player.
C40_TrialBehindJudgment ==
    game.current_phase \in {DAY_DEFENSE, DAY_JUDGMENT}
       => /\ game.trial_state # NoObject
          /\ game.trial_state[1].defendant_id \in DOMAIN game.players
          /\ game.players[game.trial_state[1].defendant_id].is_alive

====
